---- MODULE Spec2Model ----
(***************************************************************************)
(* The flow comparison engine of D365PythonComparison                      *)
(* (src/D365PythonComparison/src/flow_comparison.py, class FlowComparison) *)
(* as a state machine.                                                     *)
(*                                                                         *)
(* Python values are modelled as follows.                                  *)
(*   - a Python str that the code inspects character by character (JSON    *)
(*     text, keys and string scalars of a definition) is a sequence of     *)
(*     one-character strings: "ab" is <<"a", "b">>, "" is <<>>;            *)
(*   - a JSON-compatible value is a record [t, n, s, c]: t is the Python   *)
(*     type ("null", "bool", "int", "float", "str", "list", "dict"), n the *)
(*     number (bool: 0/1), s the characters of a str or the repr of a      *)
(*     float, c the children, a sequence of entries [k, v] (k is the key   *)
(*     of a dict entry, <<>> in a list). A dict keeps its insertion order  *)
(*     and has no repeated key;                                            *)
(*   - an Optional value is <<>> (None) or <<x>>;                          *)
(*   - flow names, status words and exception messages are TLA+ strings.   *)
(* Floats are decimal literals with a fraction of at most four digits;     *)
(* exponents, NaN/Infinity and \u escapes are outside the input sets.      *)
(***************************************************************************)
EXTENDS Integers, Sequences, FiniteSets, TLC

(***************************************************************************)
(* Bounds of the model.                                                    *)
(***************************************************************************)
\* Longest flow inventory returned by a fetch.
MaxFlows == 2
\* Frames the interpreter has left when build_snapshot is entered (a scaled
\* down sys.getrecursionlimit()).
RecursionLimit == 16
\* Longest clientdata text of the exhaustive part of the snapshot inputs.
MaxTextLen == 2

(***************************************************************************)
(* Characters.                                                             *)
(***************************************************************************)
AsciiTable ==
  << " ", "!", "\"", "#", "$", "%", "&", "'", "(", ")", "*", "+", ",", "-", ".", "/",
     "0", "1", "2", "3", "4", "5", "6", "7", "8", "9", ":", ";", "<", "=", ">", "?",
     "@", "A", "B", "C", "D", "E", "F", "G", "H", "I", "J", "K", "L", "M", "N", "O",
     "P", "Q", "R", "S", "T", "U", "V", "W", "X", "Y", "Z", "[", "\\", "]", "^", "_",
     "<BT>", "a", "b", "c", "d", "e", "f", "g", "h", "i", "j", "k", "l", "m", "n", "o",
     "p", "q", "r", "s", "t", "u", "v", "w", "x", "y", "z", "{", "|", "}", "~" >>

\* AsciiTable[i] is chr(31 + i); the grave accent (96), which a TLA+ string
\* cannot hold, is named "<BT>".
\* The control characters of the model, by name.
CharTab == "\t"
CharNewline == "\n"
CharBackspace == "<BS>"
CharFormFeed == "<FF>"
CharReturn == "<CR>"

ControlChars == {CharTab, CharNewline, CharBackspace, CharFormFeed, CharReturn}

Chars == {AsciiTable[i] : i \in 1..Len(AsciiTable)} \cup ControlChars

\* ord(c)
Ord ==
  [c \in Chars |->
     CASE c = CharBackspace -> 8
       [] c = CharTab -> 9
       [] c = CharNewline -> 10
       [] c = CharFormFeed -> 12
       [] c = CharReturn -> 13
       [] OTHER -> 31 + (CHOOSE i \in 1..Len(AsciiTable) : AsciiTable[i] = c)]

DigitChars == <<"0", "1", "2", "3", "4", "5", "6", "7", "8", "9">>

IsDigit(c) == c \in Chars /\ Ord[c] >= 48 /\ Ord[c] <= 57

DigitValue(c) == Ord[c] - 48

\* str.lower() of one character
LowerChar(c) == IF Ord[c] >= 65 /\ Ord[c] <= 90 THEN AsciiTable[Ord[c] + 32 - 31] ELSE c

\* str.lower()
Lower(s) == [i \in 1..Len(s) |-> LowerChar(s[i])]

\* The least i in lo..hi with P(i), or hi + 1 when there is none.
FirstFrom(lo, hi, P(_)) ==
  CHOOSE i \in lo..(hi + 1) : (i = hi + 1 \/ P(i)) /\ \A j \in lo..(i - 1) : ~P(j)

\* parts[lo] \o ... \o parts[hi]
RECURSIVE Concat(_, _, _)
Concat(parts, lo, hi) ==
  IF lo > hi THEN <<>>
  ELSE IF lo = hi THEN parts[lo]
  ELSE Concat(parts, lo, (lo + hi) \div 2) \o Concat(parts, ((lo + hi) \div 2) + 1, hi)

\* a < b for two Python strs (code point order)
StrLess(a, b) ==
  LET n == IF Len(a) < Len(b) THEN Len(a) ELSE Len(b)
      i == FirstFrom(1, n, LAMBDA j : a[j] # b[j])
  IN  IF i > n THEN Len(a) < Len(b) ELSE Ord[a[i]] < Ord[b[i]]

\* s.startswith(p)
StartsWith(s, p) == Len(s) >= Len(p) /\ SubSeq(s, 1, Len(p)) = p

\* s.endswith(p)
EndsWith(s, p) == Len(s) >= Len(p) /\ SubSeq(s, Len(s) - Len(p) + 1, Len(s)) = p

\* s[i:j] (0-based, clipped)
Slice(s, i, j) ==
  LET hi == IF j > Len(s) THEN Len(s) ELSE j
  IN  IF i >= hi THEN <<>> ELSE SubSeq(s, i + 1, hi)

\* str(n) of a non-negative int
RECURSIVE NatStr(_)
NatStr(n) ==
  IF n < 10 THEN <<DigitChars[n + 1]>>
  ELSE NatStr(n \div 10) \o <<DigitChars[(n % 10) + 1]>>

\* str(n) of an int
IntStr(n) == IF n < 0 THEN <<"-">> \o NatStr(0 - n) ELSE NatStr(n)

(***************************************************************************)
(* JSON-compatible values.                                                 *)
(***************************************************************************)
JNull == [t |-> "null", n |-> 0, s |-> <<>>, c |-> <<>>]
JBool(b) == [t |-> "bool", n |-> IF b THEN 1 ELSE 0, s |-> <<>>, c |-> <<>>]
JInt(i) == [t |-> "int", n |-> i, s |-> <<>>, c |-> <<>>]
JStr(s) == [t |-> "str", n |-> 0, s |-> s, c |-> <<>>]
\* a float, by its repr
JFloat(text) == [t |-> "float", n |-> 0, s |-> text, c |-> <<>>]
JList(entries) == [t |-> "list", n |-> 0, s |-> <<>>, c |-> entries]
JDict(entries) == [t |-> "dict", n |-> 0, s |-> <<>>, c |-> entries]

Entry(k, v) == [k |-> k, v |-> v]
Item(v) == [k |-> <<>>, v |-> v]

\* list(d.keys()) of a dict value
Keys(d) == [i \in 1..Len(d.c) |-> d.c[i].k]

\* set(d.keys())
KeySet(d) == {d.c[i].k : i \in 1..Len(d.c)}

\* key in d
HasKey(d, k) == \E i \in 1..Len(d.c) : d.c[i].k = k

\* d[key] (the key is present)
Get(d, k) == d.c[CHOOSE i \in 1..Len(d.c) : d.c[i].k = k].v

\* es with es[key] = v done: the value is replaced in place, a new key is
\* appended (dict insertion order)
PutEntry(es, k, v) ==
  IF \E i \in 1..Len(es) : es[i].k = k
  THEN [i \in 1..Len(es) |-> IF es[i].k = k THEN Entry(k, v) ELSE es[i]]
  ELSE Append(es, Entry(k, v))

\* Fault: the test `clientdata is None` in place of the truth value.
TruthyNotNone(v) == v.t # "null"

\* bool(v) of a JSON-compatible value
Truthy(v) ==
  CASE v.t = "null" -> FALSE
    [] v.t = "bool" -> v.n = 1
    [] v.t = "int" -> v.n # 0
    [] v.t = "float" -> v.s \notin {<<"0", ".", "0">>, <<"-", "0", ".", "0">>}
    [] v.t = "str" -> v.s # <<>>
    [] OTHER -> v.c # <<>>

(***************************************************************************)
(* json.dumps                                                              *)
(***************************************************************************)
\* The escape of one character in a JSON string (ensure_ascii).
EscapeChar(c) ==
  CASE c = "\"" -> <<"\\", "\"">>
    [] c = "\\" -> <<"\\", "\\">>
    [] c = CharNewline -> <<"\\", "n">>
    [] c = CharTab -> <<"\\", "t">>
    [] c = CharReturn -> <<"\\", "r">>
    [] c = CharBackspace -> <<"\\", "b">>
    [] c = CharFormFeed -> <<"\\", "f">>
    [] OTHER -> <<c>>

\* The JSON string literal of a Python str.
EscapeStr(s) == Concat([i \in 1..Len(s) |-> EscapeChar(s[i])], 1, Len(s))

QuoteStr(s) == <<"\"">> \o EscapeStr(s) \o <<"\"">>

\* sep.join(parts)
Join(parts, sep) ==
  Concat([i \in 1..Len(parts) |-> IF i = 1 THEN parts[i] ELSE sep \o parts[i]], 1, Len(parts))

\* e inserted into the entries es, which are sorted by key
RECURSIVE InsertByKey(_, _)
InsertByKey(es, e) ==
  IF es = <<>> THEN <<e>>
  ELSE IF StrLess(e.k, es[1].k) THEN <<e>> \o es
  ELSE <<es[1]>> \o InsertByKey(Tail(es), e)

\* the entries of a dict in the order of sorted(d.keys())
RECURSIVE SortByKey(_)
SortByKey(es) ==
  IF es = <<>> THEN <<>>
  ELSE InsertByKey(SortByKey(SubSeq(es, 1, Len(es) - 1)), es[Len(es)])

\* json.dumps(v, sort_keys=sort_keys, separators=(item_sep, key_sep))
RECURSIVE Dumps(_, _, _, _)
Dumps(v, sort_keys, item_sep, key_sep) ==
  CASE v.t = "null" -> <<"n", "u", "l", "l">>
    [] v.t = "bool" -> IF v.n = 1 THEN <<"t", "r", "u", "e">> ELSE <<"f", "a", "l", "s", "e">>
    [] v.t = "int" -> IntStr(v.n)
    [] v.t = "float" -> v.s
    [] v.t = "str" -> QuoteStr(v.s)
    [] v.t = "list" ->
         <<"[">>
         \o Join([i \in 1..Len(v.c) |-> Dumps(v.c[i].v, sort_keys, item_sep, key_sep)], item_sep)
         \o <<"]">>
    [] v.t = "dict" ->
         LET es == IF sort_keys THEN SortByKey(v.c) ELSE v.c
         IN  <<"{">>
             \o Join([i \in 1..Len(es) |->
                        QuoteStr(es[i].k) \o key_sep
                        \o Dumps(es[i].v, sort_keys, item_sep, key_sep)], item_sep)
             \o <<"}">>

\* json.dumps(v, sort_keys=True, separators=(',', ':'))
DumpsCompact(v) == Dumps(v, TRUE, <<",">>, <<":">>)

\* json.dumps(v, sort_keys=True)
DumpsSorted(v) == Dumps(v, TRUE, <<",", " ">>, <<":", " ">>)

(***************************************************************************)
(* json.loads (json.decoder and json.scanner of CPython 3.11).             *)
(* A scan result is [st, v, end, msg]: st = "ok" with the value and the    *)
(* index after it; "stop" is StopIteration(end); "err" is a                *)
(* JSONDecodeError(msg, s, end) raised at recursion level lvl; "rec" is a  *)
(* RecursionError.                                                         *)
(* Indices are Python's (0-based): s[i] is the model's s[i + 1].           *)
(***************************************************************************)
\* str(e) of a RecursionError: the text names the call that found no level left
RecursionErrorStr(where) == "maximum recursion depth exceeded" \o where

POk(v, end) == [st |-> "ok", v |-> v, end |-> end, msg |-> "", lvl |-> 0]
PStop(idx) == [st |-> "stop", v |-> JNull, end |-> idx, msg |-> "", lvl |-> 0]
PErr(msg, pos, lvl) == [st |-> "err", v |-> JNull, end |-> pos, msg |-> msg, lvl |-> lvl]
PRec(msg) == [st |-> "rec", v |-> JNull, end |-> 0, msg |-> msg, lvl |-> 0]

\* s[idx:idx + 1]
CharAt(s, idx) == IF idx < Len(s) THEN s[idx + 1] ELSE ""

WHITESPACE_STR == {" ", CharTab, CharNewline, CharReturn}

\* WHITESPACE.match(s, idx).end()
SkipWs(s, idx) ==
  IF idx >= Len(s) THEN idx
  ELSE FirstFrom(idx + 1, Len(s), LAMBDA j : s[j] \notin WHITESPACE_STR) - 1

\* BACKSLASH: the character an escape letter stands for
BACKSLASH(esc) ==
  CASE esc = "\"" -> "\""
    [] esc = "\\" -> "\\"
    [] esc = "/" -> "/"
    [] esc = "b" -> CharBackspace
    [] esc = "f" -> CharFormFeed
    [] esc = "n" -> CharNewline
    [] esc = "r" -> CharReturn
    [] esc = "t" -> CharTab
    [] OTHER -> ""

\* scanstring(s, end) (the C scanner, which json.loads uses): end is the
\* index after the opening quote
RECURSIVE ScanStringFrom(_, _, _, _, _)
ScanStringFrom(s, begin, end, acc, depth) ==
  \* STRINGCHUNK: the text up to the next quote, backslash or control character
  LET t == FirstFrom(end + 1, Len(s),
                     LAMBDA j : s[j] = "\"" \/ s[j] = "\\" \/ s[j] \in ControlChars)
  IN  IF t > Len(s) THEN PErr("Unterminated string starting at", begin, depth)
      ELSE LET content == acc \o SubSeq(s, end + 1, t - 1)
           IN  IF s[t] = "\"" THEN POk(JStr(content), t)
               ELSE IF s[t] = "\\"
               THEN IF t >= Len(s)
                    THEN PErr("Unterminated string starting at", begin, depth)
                    ELSE IF s[t + 1] = "u" THEN PErr("Invalid \\uXXXX escape", t - 1, depth)
                    ELSE IF BACKSLASH(s[t + 1]) = "" THEN PErr("Invalid \\escape", t - 1, depth)
                    ELSE ScanStringFrom(s, begin, t + 1, Append(content, BACKSLASH(s[t + 1])), depth)
               ELSE PErr("Invalid control character at", t - 1, depth)

ScanString(s, end, depth) == ScanStringFrom(s, end - 1, end, <<>>, depth)

\* the index after the digits that start at idx
SkipDigits(s, idx) ==
  IF idx >= Len(s) THEN idx
  ELSE FirstFrom(idx + 1, Len(s), LAMBDA j : ~IsDigit(s[j])) - 1

\* int(digits)
RECURSIVE NatOf(_)
NatOf(ds) ==
  IF ds = <<>> THEN 0 ELSE 10 * NatOf(SubSeq(ds, 1, Len(ds) - 1)) + DigitValue(ds[Len(ds)])

\* the digits of a fraction as float.__repr__ prints them: no trailing zero
\* but the first digit
RECURSIVE FracRepr(_)
FracRepr(ds) ==
  IF Len(ds) > 1 /\ ds[Len(ds)] = "0" THEN FracRepr(SubSeq(ds, 1, Len(ds) - 1)) ELSE ds

\* float(integer + frac), by its repr
FloatOf(integer, frac) == JFloat(integer \o <<".">> \o FracRepr(frac))

\* the number matched: int(integer) when there is no fraction, else a float
NumberOf(s, idx, d0, end, fend) ==
  IF fend > end + 1
  THEN POk(FloatOf(Slice(s, idx, end), Slice(s, end + 1, fend)), fend)
  ELSE POk(JInt(IF d0 > idx THEN 0 - NatOf(Slice(s, d0, end)) ELSE NatOf(Slice(s, d0, end))), end)

\* NUMBER_RE.match(s, idx): (-?(?:0|[1-9]\d*))(\.\d+)?
ScanNumber(s, idx) ==
  LET neg == CharAt(s, idx) = "-"
      d0 == IF neg THEN idx + 1 ELSE idx
      first == CharAt(s, d0)
  IN  IF first = "" \/ ~IsDigit(first) THEN PStop(idx)
      ELSE LET end == IF first = "0" THEN d0 + 1 ELSE SkipDigits(s, d0)
           IN  NumberOf(s, idx, d0, end,
                        IF CharAt(s, end) = "." THEN SkipDigits(s, end + 1) ELSE end)

\* dict(pairs): a repeated key keeps its first place and its last value
RECURSIVE DictOfPairs(_, _)
DictOfPairs(pairs, acc) ==
  IF pairs = <<>> THEN acc
  ELSE DictOfPairs(Tail(pairs), PutEntry(acc, pairs[1].k, pairs[1].v))

\* scan_once(s, idx) with JSONObject and JSONArray. `depth` is the recursion
\* level of this call of the scanner: entering an object or an array takes one
\* level more, and fails when the interpreter has none left. JSONObject and
\* JSONArray run at the level `depth` that they are given.
RECURSIVE ScanOnce(_, _, _)
RECURSIVE ScanObjectLoop(_, _, _, _)
RECURSIVE ScanArrayLoop(_, _, _, _)

\* JSONObject((s, end)): end is the index after the brace
ScanObject(s, end0, depth) ==
  LET c0 == CharAt(s, end0)
      end1 == IF c0 # "\"" /\ (c0 = "" \/ c0 \in WHITESPACE_STR) THEN SkipWs(s, end0) ELSE end0
      c1 == CharAt(s, end1)
  IN  IF c1 = "}" THEN POk(JDict(<<>>), end1 + 1)
      ELSE IF c1 # "\""
      THEN PErr("Expecting property name enclosed in double quotes", end1, depth)
      ELSE ScanObjectLoop(s, end1 + 1, depth, <<>>)

\* JSONObject's loop, from the comma after a pair on: idx is the index of the
\* next key's quote
ObjectNextKey(s, idx, depth, pairs) ==
  IF CharAt(s, idx) # "\""
  THEN PErr("Expecting property name enclosed in double quotes", idx, depth)
  ELSE ScanObjectLoop(s, idx + 1, depth, pairs)

\* JSONObject's loop, after a pair: idx is the index of the next character
ObjectNext(s, idx, depth, pairs) ==
  IF CharAt(s, idx) = "}" THEN POk(JDict(DictOfPairs(pairs, <<>>)), idx + 1)
  ELSE IF CharAt(s, idx) # "," THEN PErr("Expecting ',' delimiter", idx, depth)
  ELSE ObjectNextKey(s, SkipWs(s, idx + 1), depth, pairs)

\* JSONObject's loop, after scan_once has run on the value of `key`
ObjectValue(s, depth, pairs, key, val) ==
  IF val.st # "ok" THEN val
  ELSE ObjectNext(s, SkipWs(s, val.end), depth, Append(pairs, Entry(key, val.v)))

\* JSONObject's loop, after the key: idx is the index of the colon
ObjectColon(s, idx, depth, pairs, key) ==
  IF CharAt(s, idx) # ":" THEN PErr("Expecting ':' delimiter", idx, depth)
  ELSE ObjectValue(s, depth, pairs, key, ScanOnce(s, SkipWs(s, idx + 1), depth))

\* JSONObject's loop, after scanstring has run on the key
ObjectKey(s, depth, pairs, key) ==
  IF key.st # "ok" THEN key
  ELSE ObjectColon(s, IF CharAt(s, key.end) # ":" THEN SkipWs(s, key.end) ELSE key.end,
                   depth, pairs, key.v.s)

\* one turn of JSONObject's loop: end is the index after the key's quote
ScanObjectLoop(s, end, depth, pairs) == ObjectKey(s, depth, pairs, ScanString(s, end, depth))

\* JSONArray((s, end)): end is the index after the bracket
ScanArray(s, end0, depth) ==
  LET end1 == SkipWs(s, end0)
  IN  IF CharAt(s, end1) = "]" THEN POk(JList(<<>>), end1 + 1)
      ELSE ScanArrayLoop(s, end1, depth, <<>>)

\* JSONArray's loop, after an item: idx is the index of the next character
ArrayNext(s, idx, depth, values) ==
  IF CharAt(s, idx) = "]" THEN POk(JList(values), idx + 1)
  ELSE IF CharAt(s, idx) # "," THEN PErr("Expecting ',' delimiter", idx, depth)
  ELSE ScanArrayLoop(s, SkipWs(s, idx + 1), depth, values)

\* JSONArray's loop, after scan_once has run on an item
ArrayValue(s, depth, values, val) ==
  IF val.st # "ok" THEN val
  ELSE ArrayNext(s, SkipWs(s, val.end), depth, Append(values, Item(val.v)))

\* one turn of JSONArray's loop
ScanArrayLoop(s, end, depth, values) == ArrayValue(s, depth, values, ScanOnce(s, end, depth))

ScanOnce(s, idx, depth) ==
  LET nextchar == CharAt(s, idx)
  IN  IF nextchar = "" THEN PStop(idx)
      ELSE IF nextchar = "\"" THEN ScanString(s, idx + 1, depth)
      ELSE IF nextchar = "{"
      THEN IF depth + 1 > RecursionLimit
           THEN PRec(RecursionErrorStr(" while decoding a JSON object from a unicode string"))
           ELSE ScanObject(s, idx + 1, depth + 1)
      ELSE IF nextchar = "["
      THEN IF depth + 1 > RecursionLimit
           THEN PRec(RecursionErrorStr(" while decoding a JSON array from a unicode string"))
           ELSE ScanArray(s, idx + 1, depth + 1)
      ELSE IF nextchar = "n" /\ Slice(s, idx, idx + 4) = <<"n", "u", "l", "l">>
      THEN POk(JNull, idx + 4)
      ELSE IF nextchar = "t" /\ Slice(s, idx, idx + 4) = <<"t", "r", "u", "e">>
      THEN POk(JBool(TRUE), idx + 4)
      ELSE IF nextchar = "f" /\ Slice(s, idx, idx + 5) = <<"f", "a", "l", "s", "e">>
      THEN POk(JBool(FALSE), idx + 5)
      ELSE ScanNumber(s, idx)

\* s.count('\n', 0, pos)
CountNewlines(s, pos) == Cardinality({j \in 1..pos : s[j] = CharNewline})

\* s.rindex('\n', 0, pos), or -1
LastNewline(s, pos) ==
  LET S == {j \in 1..pos : s[j] = CharNewline}
  IN  IF S = {} THEN 0 - 1 ELSE (CHOOSE j \in S : \A k \in S : k <= j) - 1

\* str(JSONDecodeError(msg, s, pos))
JSONDecodeErrorStr(msg, s, pos) ==
  msg \o ": line " \o ToString(CountNewlines(s, pos) + 1)
      \o " column " \o ToString(pos - LastNewline(s, pos))
      \o " (char " \o ToString(pos) \o ")"

\* json.loads(s), called from a function that runs at recursion level `frame`
\* (loads, decode and raw_decode take a level each, the scanner the next):
\* [ok, v, exc, error]; exc is the type and error the str(e) of the exception
LoadsFail(exc, error) == [ok |-> FALSE, v |-> JNull, exc |-> exc, error |-> error]

\* raise JSONDecodeError(msg, s, pos) at recursion level lvl: the call of the
\* class, its __init__ and ValueError.__init__ take a level each, and what is
\* raised is a RecursionError when one of them finds none left
RaiseJSONDecodeError(msg, s, pos, lvl) ==
  IF lvl + 3 <= RecursionLimit
  THEN LoadsFail("JSONDecodeError", JSONDecodeErrorStr(msg, s, pos))
  ELSE IF lvl + 1 = RecursionLimit
  THEN LoadsFail("RecursionError", RecursionErrorStr(""))
  ELSE LoadsFail("RecursionError", RecursionErrorStr(" while calling a Python object"))

\* json.loads after the scanner has returned the value v: end is the index
\* after the white space that follows it
LoadsEnd(s, frame, v, end) ==
  IF end # Len(s)
  THEN RaiseJSONDecodeError("Extra data", s, end, frame + 2)
  ELSE [ok |-> TRUE, v |-> v, exc |-> "", error |-> ""]

\* json.loads after the scanner has run, with the result r
LoadsScanned(s, frame, r) ==
  IF r.st = "ok" THEN LoadsEnd(s, frame, r.v, SkipWs(s, r.end))
  ELSE IF r.st = "stop" THEN RaiseJSONDecodeError("Expecting value", s, r.end, frame + 3)
  ELSE IF r.st = "rec" THEN LoadsFail("RecursionError", r.msg)
  ELSE RaiseJSONDecodeError(r.msg, s, r.end, r.lvl)

Loads(s, frame) ==
  IF frame + 4 > RecursionLimit
  THEN LoadsFail("RecursionError", RecursionErrorStr(" while calling a Python object"))
  ELSE LoadsScanned(s, frame, ScanOnce(s, SkipWs(s, 0), frame + 4))

\* the nesting of containers in v (0 for a scalar)
RECURSIVE Nesting(_)
RECURSIVE MaxNesting(_)
MaxNesting(es) ==
  IF es = <<>> THEN 0
  ELSE LET a == Nesting(es[1].v)
           b == MaxNesting(Tail(es))
       IN  IF a > b THEN a ELSE b

Nesting(v) == IF v.t \in {"list", "dict"} THEN 1 + MaxNesting(v.c) ELSE 0

\* json.dumps(v, ...) called from a function that runs at recursion level
\* `frame` (dumps, encode and iterencode take a level each, the encoder one per
\* value nested): the str(e) of the RecursionError, or "" when there is none
DumpsError(v, frame) ==
  IF frame + 4 > RecursionLimit THEN RecursionErrorStr(" while calling a Python object")
  ELSE IF frame + 4 + Nesting(v) > RecursionLimit
  THEN RecursionErrorStr(" while encoding a JSON object")
  ELSE ""

(***************************************************************************)
(* FlowComparison.normalize_flow_definition                                *)
(***************************************************************************)
DEFAULT_IGNORE_KEYS ==
  << <<"c", "o", "n", "n", "e", "c", "t", "i", "o", "n", "R", "e", "f", "e", "r", "e", "n", "c", "e", "s">>,
     <<"r", "u", "n", "t", "i", "m", "e", "C", "o", "n", "f", "i", "g", "u", "r", "a", "t", "i", "o", "n">>,
     <<"l", "a", "s", "t", "M", "o", "d", "i", "f", "i", "e", "d">>,
     <<"c", "r", "e", "a", "t", "e", "d", "T", "i", "m", "e">>,
     <<"m", "o", "d", "i", "f", "i", "e", "d", "T", "i", "m", "e">>,
     <<"e", "t", "a", "g">>,
     <<"t", "r", "a", "c", "k", "e", "d", "P", "r", "o", "p", "e", "r", "t", "i", "e", "s">>,
     <<"w", "o", "r", "k", "f", "l", "o", "w", "i", "d">>,
     <<"f", "l", "o", "w", "i", "d">> >>

\* self.ignore_keys (set in __init__, never changed)
ignore_keys == {DEFAULT_IGNORE_KEYS[i] : i \in 1..Len(DEFAULT_IGNORE_KEYS)}

\* re.match(r".*[iI]d$", key): "." is any character but a line break, and "$"
\* is the end of the key or the place before a line break that ends it
MatchIdSuffix(key) ==
  \E e \in {Len(key), Len(key) - 1} :
    /\ e >= 2
    /\ e = Len(key) \/ key[Len(key)] = CharNewline
    /\ key[e] = "d"
    /\ key[e - 1] \in {"i", "I"}
    /\ \A j \in 1..(e - 2) : key[j] # CharNewline

\* Fault: only the listed keys are ignored.
should_ignore_listed(key) == key \in ignore_keys

should_ignore(key) ==
  \/ key \in ignore_keys
  \/ MatchIdSuffix(key)
  \/ StartsWith(Lower(key), <<"c", "o", "n", "n", "e", "c", "t", "i", "o", "n">>)

IsHex(c) ==
  \/ IsDigit(c)
  \/ c \in {"a", "b", "c", "d", "e", "f", "A", "B", "C", "D", "E", "F"}

\* the lengths of the runs of hex digits of the GUID pattern
GuidGroups == <<8, 4, 4, 4, 12>>

\* the GUID pattern, a character class per position: "h" is [0-9a-fA-F]
RECURSIVE GuidPatternOf(_)
GuidPatternOf(groups) ==
  IF groups = <<>> THEN <<>>
  ELSE [i \in 1..groups[1] |-> "h"]
       \o (IF Len(groups) > 1 THEN <<"-">> ELSE <<>>)
       \o GuidPatternOf(Tail(groups))

GuidPattern == GuidPatternOf(GuidGroups)

\* the GUID pattern matches text at index i
GuidAt(text, i) ==
  /\ i + Len(GuidPattern) <= Len(text)
  /\ \A j \in 1..Len(GuidPattern) :
       IF GuidPattern[j] = "h" THEN IsHex(text[i + j]) ELSE text[i + j] = "-"

\* the text from index i on, with every match replaced
RECURSIVE MaskGuidsFrom(_, _)
MaskGuidsFrom(text, i) ==
  IF i >= Len(text) THEN <<>>
  ELSE LET m == FirstFrom(i, Len(text) - 1, LAMBDA j : GuidAt(text, j))
       IN  IF m >= Len(text) THEN Slice(text, i, Len(text))
           ELSE Slice(text, i, m) \o <<"<", "G", "U", "I", "D", ">">>
                \o MaskGuidsFrom(text, m + Len(GuidPattern))

\* re.sub(<GUID pattern>, '<GUID>', text)
mask_guids(text) == MaskGuidsFrom(text, 0)

\* text.replace(old, new), old not empty
RECURSIVE ReplaceFrom(_, _, _, _)
ReplaceFrom(text, old, new, i) ==
  IF i >= Len(text) THEN <<>>
  ELSE LET m == FirstFrom(i, Len(text) - 1, LAMBDA j : Slice(text, j, j + Len(old)) = old)
       IN  IF m >= Len(text) THEN Slice(text, i, Len(text))
           ELSE Slice(text, i, m) \o new \o ReplaceFrom(text, old, new, m + Len(old))

mask_host_urls(text, env_host) ==
  IF env_host # <<>>
  THEN ReplaceFrom(text, env_host, <<"<", "E", "N", "V", "_", "H", "O", "S", "T", ">">>, 0)
  ELSE text

\* The RecursionError, if any, of a helper that traverse calls at level
\* `frame` and that uses a regular expression (should_ignore, mask_guids):
\* the helper, the function of re and re._compile take a level each, and
\* _compile needs two more; "" when the levels suffice.
HelperError(frame) ==
  IF frame + 5 <= RecursionLimit THEN ""
  ELSE IF frame + 4 = RecursionLimit THEN RecursionErrorStr(" while calling a Python object")
  ELSE IF frame + 3 = RecursionLimit THEN RecursionErrorStr(" in __instancecheck__")
  ELSE RecursionErrorStr("")

TOk(v) == [ok |-> TRUE, v |-> v, error |-> ""]
TFail(error) == [ok |-> FALSE, v |-> JNull, error |-> error]

\* traverse(obj), running at recursion level `frame`: [ok, v, error], error the
\* str(e) of the RecursionError raised
RECURSIVE traverse(_, _, _)
RECURSIVE TraverseDict(_, _, _, _)
RECURSIVE TraverseList(_, _, _, _)

\* the items with `item` put before the first one that is not below it
RECURSIVE InsertSorted(_, _)
InsertSorted(items, item) ==
  IF items = <<>> THEN <<item>>
  ELSE IF StrLess(DumpsCompact(items[1].v), DumpsCompact(item.v))
  THEN <<items[1]>> \o InsertSorted(Tail(items), item)
  ELSE <<item>> \o items

\* Fault: the items of a list are sorted, as the keys of a mapping are.
RECURSIVE TraverseListSorted(_, _, _, _)
TraverseListSorted(es, env_host, frame, acc) ==
  IF es = <<>> THEN TOk(JList(acc))
  ELSE LET item == traverse(es[1].v, env_host, frame + 1)
       IN  IF ~item.ok THEN item
           ELSE TraverseListSorted(Tail(es), env_host, frame, InsertSorted(acc, Item(item.v)))

\* the loop over sorted(obj.keys()): es are the entries left, acc is normalized
TraverseDict(es, env_host, frame, acc) ==
  IF es = <<>> THEN TOk(JDict(acc))
  ELSE LET key == es[1].k
       IN  IF key \notin ignore_keys /\ HelperError(frame) # ""
           THEN TFail(HelperError(frame))
           ELSE IF should_ignore(key)
           THEN TraverseDict(Tail(es), env_host, frame, acc)
           ELSE LET value == traverse(es[1].v, env_host, frame + 1)
                IN  IF ~value.ok THEN value
                    ELSE TraverseDict(Tail(es), env_host, frame, PutEntry(acc, key, value.v))

\* the list comprehension, which runs at level `frame`
TraverseList(es, env_host, frame, acc) ==
  IF es = <<>> THEN TOk(JList(acc))
  ELSE LET item == traverse(es[1].v, env_host, frame + 1)
       IN  IF ~item.ok THEN item
           ELSE TraverseList(Tail(es), env_host, frame, Append(acc, Item(item.v)))

traverse(obj, env_host, frame) ==
  IF frame > RecursionLimit THEN TFail(RecursionErrorStr(""))
  ELSE IF obj.t = "dict"
  THEN IF frame + 1 > RecursionLimit
       THEN TFail(RecursionErrorStr(" while calling a Python object"))
       ELSE TraverseDict(SortByKey(obj.c), env_host, frame, <<>>)
  ELSE IF obj.t = "list"
  THEN IF frame + 1 > RecursionLimit
       THEN TFail(RecursionErrorStr(""))
       ELSE TraverseList(obj.c, env_host, frame + 1, <<>>)
  ELSE IF obj.t = "str"
  THEN IF HelperError(frame) # ""
       THEN TFail(HelperError(frame))
       ELSE TOk(JStr(mask_host_urls(mask_guids(obj.s), env_host)))
  ELSE TOk(obj)

\* json.dumps(normalized, sort_keys=True, separators=(',', ':')) of the
\* outcome of traverse: [ok, canonical, error]
Canonical(normalized, frame) ==
  IF ~normalized.ok
  THEN [ok |-> FALSE, canonical |-> <<>>, error |-> normalized.error]
  ELSE IF DumpsError(normalized.v, frame + 1) # ""
  THEN [ok |-> FALSE, canonical |-> <<>>, error |-> DumpsError(normalized.v, frame + 1)]
  ELSE [ok |-> TRUE, canonical |-> DumpsCompact(normalized.v), error |-> ""]

\* normalize_flow_definition(flow_json, env_host), called at level `frame`:
\* [ok, canonical, error]
normalize_flow_definition(flow_json, env_host, frame) ==
  Canonical(traverse(flow_json, env_host, frame + 2), frame)

(***************************************************************************)
(* FlowComparison.compute_hash and FlowComparison.build_snapshot           *)
(***************************************************************************)
\* Fault: a digest that does not read its input.
compute_hash_of_nothing(canonical_json) == <<"sha256:">>

\* The SHA-256 hex digest of canonical_json. The digest is modelled by its
\* preimage under a tag: never empty, and equal for equal texts only.
compute_hash(canonical_json) == <<"sha256:">> \o canonical_json

\* A flow record of the fetch: `keys` are the keys the record has.
Flow(keys, workflowid, name, clientdata) ==
  [keys |-> keys, workflowid |-> workflowid, name |-> name, clientdata |-> clientdata]

\* flow.get(key, default)
FlowGet(flow, key, default) == IF key \in flow.keys THEN flow[key] ELSE default

\* The try block of build_snapshot leaves [exc, error, canonical_json, hash],
\* exc the type of the exception that left the block ("" when none did).
TryFailed(exc_type, error) ==
  [exc |-> exc_type, error |-> error, canonical_json |-> <<>>, hash |-> <<>>]

\* Fault: the try block ends before the hash is stored.
TryNormalizedNoHash(norm) ==
  IF ~norm.ok THEN TryFailed("RecursionError", norm.error)
  ELSE [exc |-> "", error |-> "", canonical_json |-> norm.canonical, hash |-> <<>>]

\* the try block, after normalize_flow_definition has run
TryNormalized(norm) ==
  IF ~norm.ok THEN TryFailed("RecursionError", norm.error)
  ELSE [exc |-> "", error |-> "",
        canonical_json |-> norm.canonical, hash |-> compute_hash(norm.canonical)]

\* the try block, after clientdata is parsed
TryParsed(parsed, env_host) ==
  IF ~parsed.ok THEN TryFailed(parsed.exc, parsed.error)
  ELSE TryNormalized(normalize_flow_definition(parsed.v, env_host, 1))

\* the try block of build_snapshot, which runs at recursion level 1
SnapshotTry(clientdata, env_host) ==
  TryParsed(IF clientdata.t = "str"
            THEN Loads(clientdata.s, 1)
            ELSE [ok |-> TRUE, v |-> clientdata, exc |-> "", error |-> ""],
            env_host)

\* Fault: a handler for the parse error only (except json.JSONDecodeError).
SnapshotCaughtParseOnly == {"JSONDecodeError"}

\* The exception types that build_snapshot's handler catches (except Exception).
SnapshotCaught == {"JSONDecodeError", "RecursionError"}

\* build_snapshot after its try statement, `body` the outcome of the try
\* block: [snapshot, raised]
SnapshotAfterTry(snapshot, body) ==
  IF body.exc = ""
  THEN [snapshot |-> [snapshot EXCEPT !.canonical_json = body.canonical_json,
                                      !.hash = body.hash],
        raised |-> <<>>]
  ELSE IF body.exc \in SnapshotCaught
  THEN [snapshot |-> [snapshot EXCEPT !.error = <<body.error>>], raised |-> <<>>]
  ELSE [snapshot |-> snapshot, raised |-> <<body.exc, body.error>>]

\* the snapshot dictionary as build_snapshot creates it
NewSnapshot(flow, env_host) ==
  [flow_id |-> FlowGet(flow, "workflowid", ""),
   name |-> FlowGet(flow, "name", ""),
   environment |-> env_host,
   canonical_json |-> <<>>,
   hash |-> <<>>,
   error |-> <<>>]

\* build_snapshot(flow, env_host): [snapshot, raised]; raised is <<>>, or
\* <<type, str(e)>> for an exception that leaves build_snapshot.
build_snapshot(flow, env_host) ==
  IF ~Truthy(FlowGet(flow, "clientdata", JNull))
  THEN [snapshot |-> [NewSnapshot(flow, env_host)
                        EXCEPT !.error = <<"clientdata missing or empty">>],
        raised |-> <<>>]
  ELSE SnapshotAfterTry(NewSnapshot(flow, env_host),
                        SnapshotTry(FlowGet(flow, "clientdata", JNull), env_host))

(***************************************************************************)
(* str() and repr() of a JSON-compatible value                             *)
(***************************************************************************)
\* The two hexadecimal digits of n < 256.
HexDigits == <<"0", "1", "2", "3", "4", "5", "6", "7", "8", "9", "a", "b", "c", "d", "e", "f">>

HexByte(n) == <<HexDigits[(n \div Len(HexDigits)) + 1], HexDigits[(n % Len(HexDigits)) + 1]>>

\* One character of repr(s), s quoted with `quote`.
ReprChar(c, quote) ==
  CASE c = "\\" -> <<"\\", "\\">>
    [] c = quote -> <<"\\", c>>
    [] c = CharNewline -> <<"\\", "n">>
    [] c = CharTab -> <<"\\", "t">>
    [] c = CharReturn -> <<"\\", "r">>
    [] c \in {CharBackspace, CharFormFeed} -> <<"\\", "x">> \o HexByte(Ord[c])
    [] OTHER -> <<c>>

\* repr(s) of a str: double quotes when s holds a single quote and no double one
ReprStr(s) ==
  LET has(q) == \E i \in 1..Len(s) : s[i] = q
      quote == IF has("'") /\ ~has("\"") THEN "\"" ELSE "'"
  IN  <<quote>> \o Concat([i \in 1..Len(s) |-> ReprChar(s[i], quote)], 1, Len(s)) \o <<quote>>

\* repr(v)
RECURSIVE PyRepr(_)
PyRepr(v) ==
  CASE v.t = "null" -> <<"N", "o", "n", "e">>
    [] v.t = "bool" -> IF v.n = 1 THEN <<"T", "r", "u", "e">> ELSE <<"F", "a", "l", "s", "e">>
    [] v.t = "int" -> IntStr(v.n)
    [] v.t = "float" -> v.s
    [] v.t = "str" -> ReprStr(v.s)
    [] v.t = "list" ->
         <<"[">> \o Join([i \in 1..Len(v.c) |-> PyRepr(v.c[i].v)], <<",", " ">>) \o <<"]">>
    [] v.t = "dict" ->
         <<"{">>
         \o Join([i \in 1..Len(v.c) |-> ReprStr(v.c[i].k) \o <<":", " ">> \o PyRepr(v.c[i].v)],
                 <<",", " ">>)
         \o <<"}">>

\* str(v)
PyStr(v) == IF v.t = "str" THEN v.s ELSE PyRepr(v)

(***************************************************************************)
(* Iteration over a set of str. The order in which Python iterates a set   *)
(* is unspecified (it depends on the hashes of the strings, which differ   *)
(* from one interpreter to the next): an iteration takes one of the        *)
(* orders of SetOrders.                                                    *)
(***************************************************************************)
SetOrders == {"ascending", "descending"}

\* the elements of S as a sequence sorted by StrLess
RECURSIVE SortedSeq(_)
SortedSeq(S) ==
  IF S = {} THEN <<>>
  ELSE LET least == CHOOSE x \in S : \A y \in S \ {x} : StrLess(x, y)
       IN  <<least>> \o SortedSeq(S \ {least})

Reverse(q) == [i \in 1..Len(q) |-> q[Len(q) + 1 - i]]

\* list(S) under the iteration order `order`
SetSeq(S, order) == IF order = "ascending" THEN SortedSeq(S) ELSE Reverse(SortedSeq(S))

(***************************************************************************)
(* FlowComparison.compute_diff                                             *)
(***************************************************************************)
\* Fault: the two values of an entry in each other's place.
ChangeSwapped(path, a, b) == [path |-> path, source_value |-> PyStr(b), target_value |-> PyStr(a)]

\* the entry appended to `changed`
Change(path, a, b) == [path |-> path, source_value |-> PyStr(a), target_value |-> PyStr(b)]

\* what a call of compare_elements appends to the three lists
Appended(added, removed, changed) == [added |-> added, removed |-> removed, changed |-> changed]

\* the appends of r1 followed by those of r2
ThenAppended(r1, r2) ==
  Appended(r1.added \o r2.added, r1.removed \o r2.removed, r1.changed \o r2.changed)

\* f"{path}.{key}"
KeyPath(path, key) == path \o <<".">> \o key

\* Fault: the indices counted from one.
IndexPathFromOne(path, i) == path \o <<"[">> \o NatStr(i + 1) \o <<"]">>

\* f"{path}[{i}]"
IndexPath(path, i) == path \o <<"[">> \o NatStr(i) \o <<"]">>

\* a != b of two scalars of the same type: 0.0 and -0.0 are equal
PyNe(a, b) ==
  /\ a # b
  /\ ~(a.t = "float" /\ {a.s, b.s} = {<<"0", ".", "0">>, <<"-", "0", ".", "0">>})

\* compare_elements(a, b, path): the entries it appends to added, removed and
\* changed, in the order of the appends
RECURSIVE compare_elements(_, _, _, _)
RECURSIVE CompareKeys(_, _, _, _, _)
RECURSIVE CompareItems(_, _, _, _, _)

\* Fault: the values of the keys of both mappings are not compared.
CompareKeysNone(a, b, path, keys, order) == Appended(<<>>, <<>>, <<>>)

\* the loop over keys_a & keys_b: keys are the keys left
CompareKeys(a, b, path, keys, order) ==
  IF keys = <<>> THEN Appended(<<>>, <<>>, <<>>)
  ELSE ThenAppended(compare_elements(Get(a, keys[1]), Get(b, keys[1]), KeyPath(path, keys[1]), order),
                    CompareKeys(a, b, path, Tail(keys), order))

\* Fault: the items of a beyond the length of b are not reported.
CompareItemsKept(a, b, path, i, order) ==
  LET max_len == IF Len(a.c) > Len(b.c) THEN Len(a.c) ELSE Len(b.c)
  IN  IF i >= max_len THEN Appended(<<>>, <<>>, <<>>)
      ELSE ThenAppended(
             IF i >= Len(a.c) THEN Appended(<<IndexPath(path, i)>>, <<>>, <<>>)
             ELSE IF i >= Len(b.c) THEN Appended(<<>>, <<>>, <<>>)
             ELSE compare_elements(a.c[i + 1].v, b.c[i + 1].v, IndexPath(path, i), order),
             CompareItems(a, b, path, i + 1, order))

\* the loop over range(max_len) from i on
CompareItems(a, b, path, i, order) ==
  LET max_len == IF Len(a.c) > Len(b.c) THEN Len(a.c) ELSE Len(b.c)
  IN  IF i >= max_len THEN Appended(<<>>, <<>>, <<>>)
      ELSE ThenAppended(
             IF i >= Len(a.c) THEN Appended(<<IndexPath(path, i)>>, <<>>, <<>>)
             ELSE IF i >= Len(b.c) THEN Appended(<<>>, <<IndexPath(path, i)>>, <<>>)
             ELSE compare_elements(a.c[i + 1].v, b.c[i + 1].v, IndexPath(path, i), order),
             CompareItems(a, b, path, i + 1, order))

\* Fault: two scalars are reported as changed whatever their values.
compare_elements_unequal(a, b, path, order) ==
  IF a.t # b.t THEN Appended(<<>>, <<>>, <<Change(path, a, b)>>)
  ELSE IF a.t = "dict"
  THEN LET keys_a == KeySet(a)
           keys_b == KeySet(b)
           gone == SetSeq(keys_a \ keys_b, order)
           new == SetSeq(keys_b \ keys_a, order)
       IN  ThenAppended(
             Appended([k \in 1..Len(new) |-> KeyPath(path, new[k])],
                      [k \in 1..Len(gone) |-> KeyPath(path, gone[k])],
                      <<>>),
             CompareKeys(a, b, path, SetSeq(keys_a \cap keys_b, order), order))
  ELSE IF a.t = "list" THEN CompareItems(a, b, path, 0, order)
  ELSE Appended(<<>>, <<>>, <<Change(path, a, b)>>)

compare_elements(a, b, path, order) ==
  IF a.t # b.t THEN Appended(<<>>, <<>>, <<Change(path, a, b)>>)
  ELSE IF a.t = "dict"
  THEN LET keys_a == KeySet(a)
           keys_b == KeySet(b)
           gone == SetSeq(keys_a \ keys_b, order)
           new == SetSeq(keys_b \ keys_a, order)
       IN  ThenAppended(
             Appended([i \in 1..Len(new) |-> KeyPath(path, new[i])],
                      [i \in 1..Len(gone) |-> KeyPath(path, gone[i])],
                      <<>>),
             CompareKeys(a, b, path, SetSeq(keys_a \cap keys_b, order), order))
  ELSE IF a.t = "list" THEN CompareItems(a, b, path, 0, order)
  ELSE IF PyNe(a, b) THEN Appended(<<>>, <<>>, <<Change(path, a, b)>>)
  ELSE Appended(<<>>, <<>>, <<>>)

\* What compute_diff returns or raises: [exc, error, added, removed, changed],
\* exc the type of the exception raised ("" when none is).
DiffRaises(exc_type, error) ==
  [exc |-> exc_type, error |-> error, added |-> <<>>, removed |-> <<>>, changed |-> <<>>]

DiffReturns(appended) ==
  [exc |-> "", error |-> "",
   added |-> appended.added, removed |-> appended.removed, changed |-> appended.changed]

\* compute_diff after the two texts are parsed
DiffParsed(obj_a, obj_b, order) ==
  IF ~obj_a.ok THEN DiffRaises(obj_a.exc, obj_a.error)
  ELSE IF ~obj_b.ok THEN DiffRaises(obj_b.exc, obj_b.error)
  ELSE DiffReturns(compare_elements(obj_a.v, obj_b.v, <<"$">>, order))

\* compute_diff(json_a, json_b), running at recursion level `frame`.
\* compare_elements and str() go no deeper than json.loads went, so that
\* only json.loads can raise.
compute_diff(json_a, json_b, frame, order) ==
  DiffParsed(Loads(json_a, frame), Loads(json_b, frame), order)

(***************************************************************************)
(* FlowComparison.extract_actions                                          *)
(***************************************************************************)
KeyProperties == <<"p", "r", "o", "p", "e", "r", "t", "i", "e", "s">>
KeyDefinition == <<"d", "e", "f", "i", "n", "i", "t", "i", "o", "n">>
KeyActions == <<"a", "c", "t", "i", "o", "n", "s">>

\* the outcome of an expression that raised
PyRaise == [t |-> "raise", n |-> 0, s |-> <<>>, c |-> <<>>]

\* sub is a substring of text
IsSubstring(sub, text) ==
  \E i \in 0..(Len(text) - Len(sub)) : Slice(text, i, i + Len(sub)) = sub

\* `key in obj`, key a str: "true", "false", or "raise" (TypeError: obj is no
\* container). A list holds key when an item equals it, a str when key is a
\* substring of it.
PyIn(key, obj) ==
  CASE obj.t = "dict" -> IF HasKey(obj, key) THEN "true" ELSE "false"
    [] obj.t = "list" ->
         IF \E i \in 1..Len(obj.c) : obj.c[i].v = JStr(key) THEN "true" ELSE "false"
    [] obj.t = "str" -> IF IsSubstring(key, obj.s) THEN "true" ELSE "false"
    [] OTHER -> "raise"

\* obj[key], key a str: the value, or PyRaise (KeyError, or TypeError when obj
\* is no dict)
PyItem(obj, key) == IF obj.t = "dict" /\ HasKey(obj, key) THEN Get(obj, key) ELSE PyRaise

\* `outer in obj and inner in obj[outer]`: "true", "false" or "raise"
PyInIn(obj, outer, inner) ==
  IF PyIn(outer, obj) # "true" THEN PyIn(outer, obj)
  ELSE IF PyItem(obj, outer) = PyRaise THEN "raise"
  ELSE PyIn(inner, PyItem(obj, outer))

\* obj[outer][inner]
PyItemItem(obj, outer, inner) ==
  IF PyItem(obj, outer) = PyRaise THEN PyRaise ELSE PyItem(PyItem(obj, outer), inner)

\* The body of the try block for the parsed obj: the value returned (JNull is
\* None), or PyRaise.
ExtractFrom(obj) ==
  LET first == PyInIn(obj, KeyProperties, KeyDefinition)
      definition == PyItemItem(obj, KeyProperties, KeyDefinition)
      second == PyInIn(obj, KeyDefinition, KeyActions)
  IN  IF first = "raise" THEN PyRaise
      ELSE IF first = "true" /\ definition = PyRaise THEN PyRaise
      ELSE IF first = "true" /\ PyIn(KeyActions, definition) = "raise" THEN PyRaise
      ELSE IF first = "true" /\ PyIn(KeyActions, definition) = "true"
      THEN PyItem(definition, KeyActions)
      ELSE IF second = "raise" THEN PyRaise
      ELSE IF second = "true" THEN PyItemItem(obj, KeyDefinition, KeyActions)
      ELSE JNull

\* the handler of the bare except: every exception becomes None
NoneIfRaised(v) == IF v = PyRaise THEN JNull ELSE v

\* extract_actions after flow_json is parsed
ExtractParsed(obj) == IF ~obj.ok THEN JNull ELSE NoneIfRaised(ExtractFrom(obj.v))

\* extract_actions(flow_json), running at recursion level `frame`: the value
\* returned (JNull is None)
extract_actions(flow_json, frame) == ExtractParsed(Loads(flow_json, frame))

(***************************************************************************)
(* FlowComparison.compute_action_differences                               *)
(***************************************************************************)
\* type(v).__name__
TypeName(v) ==
  CASE v.t = "null" -> "NoneType"
    [] v.t = "bool" -> "bool"
    [] v.t = "int" -> "int"
    [] v.t = "float" -> "float"
    [] v.t = "str" -> "str"
    [] v.t = "list" -> "list"
    [] v.t = "dict" -> "dict"

\* str(e) of the AttributeError of v.keys(), v no dict
NoKeysError(v) == "'" \o TypeName(v) \o "' object has no attribute 'keys'"

Missing == <<"(", "m", "i", "s", "s", "i", "n", "g", ")">>
Added == <<"(", "a", "d", "d", "e", "d", ")">>
Removed == <<"(", "r", "e", "m", "o", "v", "e", "d", ")">>

Difference(name, status, changed_properties) ==
  [action_name |-> name, status |-> status, changed_properties |-> changed_properties]

DiffFail(exc, error) == [exc |-> exc, error |-> error, differences |-> <<>>]

\* Fault: the changed values left out of changed_props.
ChangedPropsStructural(diff) ==
  [k \in 1..Len(diff.added) |->
     [path |-> diff.added[k], source_value |-> Missing, target_value |-> Added]]
  \o [k \in 1..Len(diff.removed) |->
        [path |-> diff.removed[k], source_value |-> Removed, target_value |-> Missing]]

\* changed_props of an action, from the diff of its two serializations
ChangedProps(diff) ==
  diff.changed
  \o [i \in 1..Len(diff.added) |->
        [path |-> diff.added[i], source_value |-> Missing, target_value |-> Added]]
  \o [i \in 1..Len(diff.removed) |->
        [path |-> diff.removed[i], source_value |-> Removed, target_value |-> Missing]]

\* Fault: the changed properties of an action left out of its entry.
ChangedDiffedBare(name, diff, rest) ==
  IF diff.exc # "" THEN DiffFail(diff.exc, diff.error)
  ELSE IF rest.exc # "" THEN rest
  ELSE [rest EXCEPT !.differences = <<Difference(name, "changed", <<>>)>> \o @]

\* the loop over the names of both action sets, after compute_diff has run
\* for `name`: rest is the outcome of the turns that follow
ChangedDiffed(name, diff, rest) ==
  IF diff.exc # "" THEN DiffFail(diff.exc, diff.error)
  ELSE IF rest.exc # "" THEN rest
  ELSE [rest EXCEPT !.differences = <<Difference(name, "changed", ChangedProps(diff))>> \o @]

\* Fault: the tree diff run for two serializations that are the same.
ChangedSerializedAlways(name, action_a_json, action_b_json, frame, order, rest) ==
  ChangedDiffed(name, compute_diff(action_a_json, action_b_json, frame + 1, order), rest)

\* the same, after the two sub-trees of `name` are serialized
ChangedSerialized(name, action_a_json, action_b_json, frame, order, rest) ==
  IF action_a_json = action_b_json THEN rest
  ELSE ChangedDiffed(name, compute_diff(action_a_json, action_b_json, frame + 1, order), rest)

\* one turn of the loop: a and b are the sub-trees of `name`
ChangedAction(name, a, b, frame, order, rest) ==
  IF DumpsError(a, frame) # "" THEN DiffFail("RecursionError", DumpsError(a, frame))
  ELSE IF DumpsError(b, frame) # "" THEN DiffFail("RecursionError", DumpsError(b, frame))
  ELSE ChangedSerialized(name, DumpsSorted(a), DumpsSorted(b), frame, order, rest)

\* the loop over the names of both action sets: names are the names left
RECURSIVE ChangedActions(_, _, _, _, _)
ChangedActions(actions_a, actions_b, names, frame, order) ==
  IF names = <<>> THEN DiffFail("", "")
  ELSE ChangedAction(names[1], Get(actions_a, names[1]), Get(actions_b, names[1]), frame, order,
                     ChangedActions(actions_a, actions_b, Tail(names), frame, order))

\* `extract_actions(...) or {}`
OrEmpty(found) == IF Truthy(found) THEN found ELSE JDict(<<>>)

\* the differences, `changed` the outcome of the third loop
ActionsDiffed(gone, new, changed) ==
  IF changed.exc # "" THEN changed
  ELSE [changed EXCEPT !.differences =
          [k \in 1..Len(gone) |-> Difference(gone[k], "removed", <<>>)]
          \o [k \in 1..Len(new) |-> Difference(new[k], "added", <<>>)]
          \o @]

\* compute_action_differences after the two action sets are extracted
ActionsFound(actions_a, actions_b, frame, order) ==
  IF actions_a.t # "dict" THEN DiffFail("AttributeError", NoKeysError(actions_a))
  ELSE IF actions_b.t # "dict" THEN DiffFail("AttributeError", NoKeysError(actions_b))
  ELSE ActionsDiffed(SetSeq(KeySet(actions_a) \ KeySet(actions_b), order),
                     SetSeq(KeySet(actions_b) \ KeySet(actions_a), order),
                     ChangedActions(actions_a, actions_b,
                                    SetSeq(KeySet(actions_a) \cap KeySet(actions_b), order),
                                    frame, order))

\* compute_action_differences(json_a, json_b), running at recursion level
\* `frame`: [exc, error, differences], exc the type of the exception raised
\* ("" when none is)
compute_action_differences(json_a, json_b, frame, order) ==
  ActionsFound(OrEmpty(extract_actions(json_a, frame + 1)),
               OrEmpty(extract_actions(json_b, frame + 1)), frame, order)

(***************************************************************************)
(* FlowComparison.compare_flows as a state machine.                        *)
(*                                                                         *)
(* pc is the position of the one call of compare_flows:                    *)
(*   "idle"          not called yet                                        *)
(*   "fetch_source"  in the paging loop of fetch_flows(source_url)         *)
(*   "fetch_target"  in the paging loop of fetch_flows(target_url)         *)
(*   "build_source"  in the loop over source_flows                         *)
(*   "build_target"  in the loop over target_flows                         *)
(*   "compare"       in the loop over source_snapshots                     *)
(*   "done"          returned                                              *)
(*   "raised"        left by an exception, exc = <<type, str(e)>>          *)
(* A dict of snapshots is the sequence of its values in insertion order.   *)
(***************************************************************************)
VARIABLES
  pc,                    \* position of the call
  source_url,            \* arguments of the call
  target_url,
  include_diff_details,
  api_url,               \* fetch_flows: TRUE while there is a page URL to request
  flows,                 \* fetch_flows: the records fetched so far
  page,                  \* fetch_flows: the number of requests made
  source_flows,
  target_flows,
  i,                     \* the index of the next element of the loop pc is in
  source_snapshots,
  target_snapshots,
  comparisons,
  identical_flows,
  non_identical_flows,
  missing_in_target,
  errors,
  exc,                   \* <<>>, or <<type, str(e)>> of the exception that left the call
  snapshot_call,         \* a single call of build_snapshot: [flow, env_host, out]
  normalize_call,        \* calls of normalize_flow_definition on two trees
  diff_call,             \* calls of compute_diff and compute_action_differences
  fetch_call             \* a single call of fetch_flows against the pages of a server

vars ==
  << pc, source_url, target_url, include_diff_details, api_url, flows, page,
     source_flows, target_flows, i, source_snapshots, target_snapshots, comparisons,
     identical_flows, non_identical_flows, missing_in_target, errors, exc, snapshot_call,
     normalize_call, diff_call, fetch_call >>

(***************************************************************************)
(* The two environments of the model.                                      *)
(***************************************************************************)
\* Most requests one fetch makes.
MaxPage == 2

SourceUrl == <<"h", "t", "t", "p", "s", ":", "/", "/", "s", ".", "i", "o", "/">>
TargetUrl == <<"t", ".", "i", "o">>

\* clientdata texts; hosts appear in the values the way environment URLs do
TextSend == JStr(<<"{", "\"", "e", "t", "a", "g", "\"", ":", "1", ",", "\"", "d", "e", "f", "i", "n", "i", "t", "i", "o", "n", "\"", ":", "{", "\"", "a", "c", "t", "i", "o", "n", "s", "\"", ":", "{", "\"", "a", "\"", ":", "\"", "s", ".", "i", "o", "/", "1", "\"", "}", "}", "}">>)
TextSendSame == JStr(<<"{", "\"", "d", "e", "f", "i", "n", "i", "t", "i", "o", "n", "\"", ":", "{", "\"", "a", "c", "t", "i", "o", "n", "s", "\"", ":", "{", "\"", "a", "\"", ":", "\"", "t", ".", "i", "o", "/", "1", "\"", "}", "}", "}">>)
TextSendOther == JStr(<<"{", "\"", "d", "e", "f", "i", "n", "i", "t", "i", "o", "n", "\"", ":", "{", "\"", "a", "c", "t", "i", "o", "n", "s", "\"", ":", "{", "\"", "a", "\"", ":", "\"", "t", ".", "i", "o", "/", "2", "\"", "}", "}", "}">>)
TextActionList == JStr(<<"{", "\"", "d", "e", "f", "i", "n", "i", "t", "i", "o", "n", "\"", ":", "{", "\"", "a", "c", "t", "i", "o", "n", "s", "\"", ":", "[", "1", "]", "}", "}">>)
TextActionListOther == JStr(<<"{", "\"", "d", "e", "f", "i", "n", "i", "t", "i", "o", "n", "\"", ":", "{", "\"", "a", "c", "t", "i", "o", "n", "s", "\"", ":", "[", "2", "]", "}", "}">>)
TextBroken == JStr(<<"{", "\"", "a", "\"">>)

FlowKeys == {"workflowid", "name", "clientdata"}

\* the records the workflows entity of each environment can return
SourceRecords ==
  { Flow(FlowKeys, "w1", "A", TextSend),
    Flow(FlowKeys, "w2", "A", JNull),
    Flow(FlowKeys, "w3", "B", TextActionList) }

TargetRecords ==
  { Flow(FlowKeys, "w4", "A", TextSendSame),
    Flow(FlowKeys, "w5", "A", TextSendOther),
    Flow(FlowKeys, "w6", "B", TextActionListOther),
    Flow(FlowKeys, "w7", "B", TextBroken) }

\* the sequences over S of length at most n
SeqsUpTo(S, n) == UNION {[1..k -> S] : k \in 0..n}

\* HTTP status codes of the model
StatusCodes == {200, 404, 429, 503}

\* The bodies a page request can return when at most `room` more records
\* fit the inventory: a JSON object with or without "value" (a list of
\* records), with or without the keys of a single record, with or without a
\* non-empty "@odata.nextLink".
Bodies(records, room) ==
  { [value |-> v, record |-> r, nextLink |-> n] :
      v \in {<<>>} \cup {<<q>> : q \in SeqsUpTo(records, room)},
      r \in {<<>>} \cup {<<f>> : f \in IF room > 0 THEN records ELSE {}},
      n \in BOOLEAN }

\* What requests.get does: it raises a RequestException, or returns a response.
Responses(records, room) ==
  {[raises |-> TRUE, status_code |-> 0, data |-> <<>>]}
  \cup {[raises |-> FALSE, status_code |-> c, data |-> <<>>] : c \in StatusCodes \ {200}}
  \cup {[raises |-> FALSE, status_code |-> 200, data |-> <<d>>] : d \in Bodies(records, room)}

NoCall == [flow |-> Flow({}, "", "", JNull), env_host |-> <<>>, out |-> <<>>]

\* compare_flows is not called yet
Idle ==
  /\ pc = "idle"
  /\ source_url = <<>>
  /\ target_url = <<>>
  /\ include_diff_details = TRUE
  /\ api_url = FALSE
  /\ flows = <<>>
  /\ page = 0
  /\ source_flows = <<>>
  /\ target_flows = <<>>
  /\ i = 0
  /\ source_snapshots = <<>>
  /\ target_snapshots = <<>>
  /\ comparisons = <<>>
  /\ identical_flows = <<>>
  /\ non_identical_flows = <<>>
  /\ missing_in_target = <<>>
  /\ errors = <<>>
  /\ exc = <<>>

Init ==
  /\ Idle
  /\ snapshot_call = NoCall
  /\ normalize_call = NoCall
  /\ diff_call = NoCall
  /\ fetch_call = NoCall

(***************************************************************************)
(* The steps of compare_flows.                                             *)
(***************************************************************************)
\* url.replace("https://", "").replace("http://", "").split('/')[0]
HostOf(url) ==
  LET bare == ReplaceFrom(ReplaceFrom(url, <<"h", "t", "t", "p", "s", ":", "/", "/">>, <<>>, 0), <<"h", "t", "t", "p", ":", "/", "/">>, <<>>, 0)
  IN  Slice(bare, 0, FirstFrom(0, Len(bare) - 1, LAMBDA j : bare[j + 1] = "/"))

\* Fault: a lookup that finds nothing.
SnapshotGetNone(snapshots, name) == <<>>

\* snapshots.get(name): <<>> is None
SnapshotGet(snapshots, name) ==
  IF \E k \in 1..Len(snapshots) : snapshots[k].name = name
  THEN <<snapshots[CHOOSE k \in 1..Len(snapshots) : snapshots[k].name = name]>>
  ELSE <<>>

\* Fault: the snapshots kept in a list, a repeated name kept twice.
PutSnapshotAppend(snapshots, snapshot) == Append(snapshots, snapshot)

\* snapshots[snapshot["name"]] = snapshot
PutSnapshot(snapshots, snapshot) ==
  IF SnapshotGet(snapshots, snapshot.name) # <<>>
  THEN [k \in 1..Len(snapshots) |->
          IF snapshots[k].name = snapshot.name THEN snapshot ELSE snapshots[k]]
  ELSE Append(snapshots, snapshot)

\* Fault: the error check left out.
HasErrorNever(snap) == FALSE

\* the truth value of snap.get("error")
HasError(snap) == snap.error # <<>> /\ snap.error[1] # ""

\* Fault: the differ run for identical pairs too.
WantsDetailsAlways(identical, include) == include

\* the condition under which the differ runs
WantsDetails(identical, include) == ~identical /\ include

Comparison(name, source, target, identical, status, diff, action_differences) ==
  [name |-> name, source |-> source, target |-> target, identical |-> identical,
   status |-> status, diff |-> diff, action_differences |-> action_differences]

Classified(entry) == [exc |-> "", error |-> "", entry |-> <<entry>>]

ClassifyRaises(exc_type, error) == [exc |-> exc_type, error |-> error, entry |-> <<>>]

\* the loop body for a pair of snapshots without error, after the differ has
\* run
ClassifyDetailed(source_snap, target_snap, identical, diff, action_diffs) ==
  IF diff.exc # "" THEN ClassifyRaises(diff.exc, diff.error)
  ELSE IF action_diffs.exc # "" THEN ClassifyRaises(action_diffs.exc, action_diffs.error)
  ELSE Classified(Comparison(
         source_snap.name, source_snap, target_snap, identical,
         IF identical THEN "identical" ELSE "different",
         <<[added |-> diff.added, removed |-> diff.removed, changed |-> diff.changed]>>,
         <<action_diffs.differences>>))

\* the loop body for a pair of snapshots without error
ClassifyCompared(source_snap, target_snap, identical, include, order) ==
  IF WantsDetails(identical, include)
  THEN ClassifyDetailed(
         source_snap, target_snap, identical,
         compute_diff(source_snap.canonical_json, target_snap[1].canonical_json, 1, order),
         compute_action_differences(source_snap.canonical_json,
                                    target_snap[1].canonical_json, 1, order))
  ELSE Classified(Comparison(source_snap.name, source_snap, target_snap, identical,
                             IF identical THEN "identical" ELSE "different", <<>>, <<>>))

\* The body of the loop over source_snapshots for one name: the entry it
\* appends to comparisons, or the exception that leaves it. target_snap is
\* <<>> (None) or <<snapshot>>.
Classify(source_snap, target_snap, include, order) ==
  IF target_snap = <<>>
  THEN Classified(Comparison(source_snap.name, source_snap, <<>>, FALSE,
                             "missing_in_target", <<>>, <<>>))
  ELSE IF HasError(source_snap) \/ HasError(target_snap[1])
  THEN Classified(Comparison(source_snap.name, source_snap, target_snap, FALSE,
                             "error", <<>>, <<>>))
  ELSE ClassifyCompared(source_snap, target_snap, source_snap.hash = target_snap[1].hash,
                        include, order)

\* the loop that runs after the fetches, the snapshots of the source, and
\* the snapshots of the target: a loop over an empty list is skipped
AfterBuildTarget(ss) == IF ss # <<>> THEN "compare" ELSE "done"
AfterBuildSource(tf, ss) == IF tf # <<>> THEN "build_target" ELSE AfterBuildTarget(ss)
AfterFetch(sf, tf) == IF sf # <<>> THEN "build_source" ELSE AfterBuildSource(tf, <<>>)

\* compare_flows(source_url, target_url, include_diff_details=include) is
\* called, and calls fetch_flows(source_url)
CompareFlowsCall(include) ==
  /\ pc = "idle"
  /\ pc' = "fetch_source"
  /\ source_url' = SourceUrl
  /\ target_url' = TargetUrl
  /\ include_diff_details' = include
  /\ api_url' = TRUE
  /\ flows' = <<>>
  /\ page' = 0
  /\ UNCHANGED << source_flows, target_flows, i, source_snapshots, target_snapshots,
                  comparisons, identical_flows, non_identical_flows, missing_in_target,
                  errors, exc, snapshot_call, normalize_call, diff_call, fetch_call >>

\* Fault: the records of a page take the place of the flows fetched so far.
CollectedLast(fetched, data) ==
  IF data.value # <<>> THEN data.value[1]
  ELSE IF data.record # <<>> THEN <<data.record[1]>>
  ELSE fetched

\* the flows after the body `data` of a page is taken in
Collected(fetched, data) ==
  IF data.value # <<>> THEN fetched \o data.value[1]
  ELSE IF data.record # <<>> THEN Append(fetched, data.record[1])
  ELSE fetched

\* the exception that leaves fetch_flows on `response`, <<>> when none does:
\* requests.get raised, or raise_for_status did
FetchError(response) ==
  IF response.raises THEN <<"RequestException", "request failed">>
  ELSE IF response.status_code = 429 \/ response.status_code >= 500 THEN <<>>
  ELSE IF response.status_code >= 400
  THEN <<"HTTPError", ToString(response.status_code) \o " Client Error">>
  ELSE <<>>

\* the response is transient: the same URL is requested again
Transient(response) ==
  ~response.raises /\ (response.status_code = 429 \/ response.status_code >= 500)

\* Fault: the exception of a request is noted and the flows fetched so far
\* are returned.
FetchFlowsStepCaught ==
  /\ pc \in {"fetch_source", "fetch_target"}
  /\ api_url
  /\ page < MaxPage
  /\ \E response \in Responses(IF pc = "fetch_source" THEN SourceRecords ELSE TargetRecords,
                               MaxFlows - Len(flows)) :
       IF FetchError(response) # <<>>
       THEN IF pc = "fetch_source"
            THEN /\ source_flows' = flows
                 /\ pc' = "fetch_target"
                 /\ exc' = FetchError(response)
                 /\ api_url' = TRUE
                 /\ flows' = <<>>
                 /\ page' = 0
                 /\ UNCHANGED << target_flows, i >>
            ELSE /\ target_flows' = flows
                 /\ pc' = AfterFetch(source_flows, target_flows')
                 /\ exc' = FetchError(response)
                 /\ i' = 1
                 /\ api_url' = FALSE
                 /\ flows' = <<>>
                 /\ page' = 0
                 /\ UNCHANGED source_flows
       ELSE IF Transient(response)
       THEN /\ page + 1 < MaxPage
            /\ page' = page + 1
            /\ UNCHANGED << pc, exc, api_url, flows, source_flows, target_flows, i >>
       ELSE IF response.data[1].nextLink
       THEN /\ page + 1 < MaxPage
            /\ page' = page + 1
            /\ flows' = Collected(flows, response.data[1])
            /\ UNCHANGED << pc, exc, api_url, source_flows, target_flows, i >>
       ELSE IF pc = "fetch_source"
       THEN /\ source_flows' = Collected(flows, response.data[1])
            /\ pc' = "fetch_target"
            /\ api_url' = TRUE
            /\ flows' = <<>>
            /\ page' = 0
            /\ UNCHANGED << exc, target_flows, i >>
       ELSE /\ target_flows' = Collected(flows, response.data[1])
            /\ pc' = AfterFetch(source_flows, target_flows')
            /\ i' = 1
            /\ api_url' = FALSE
            /\ flows' = <<>>
            /\ page' = 0
            /\ UNCHANGED << exc, source_flows >>
  /\ UNCHANGED << source_url, target_url, include_diff_details, source_snapshots,
                  target_snapshots, comparisons, identical_flows, non_identical_flows,
                  missing_in_target, errors, snapshot_call, normalize_call, diff_call, fetch_call >>

\* One turn of the paging loop of fetch_flows, and, when the loop ends, the
\* return to compare_flows.
FetchFlowsStep ==
  /\ pc \in {"fetch_source", "fetch_target"}
  /\ api_url
  /\ page < MaxPage
  /\ \E response \in Responses(IF pc = "fetch_source" THEN SourceRecords ELSE TargetRecords,
                               MaxFlows - Len(flows)) :
       IF FetchError(response) # <<>>
       THEN /\ pc' = "raised"
            /\ exc' = FetchError(response)
            /\ api_url' = FALSE
            /\ flows' = <<>>
            /\ page' = 0
            /\ UNCHANGED << source_flows, target_flows, i >>
       ELSE IF Transient(response)
       THEN /\ page + 1 < MaxPage
            /\ page' = page + 1
            /\ UNCHANGED << pc, exc, api_url, flows, source_flows, target_flows, i >>
       ELSE IF response.data[1].nextLink
       THEN /\ page + 1 < MaxPage
            /\ page' = page + 1
            /\ flows' = Collected(flows, response.data[1])
            /\ UNCHANGED << pc, exc, api_url, source_flows, target_flows, i >>
       ELSE IF pc = "fetch_source"
       THEN /\ source_flows' = Collected(flows, response.data[1])
            /\ pc' = "fetch_target"
            /\ api_url' = TRUE
            /\ flows' = <<>>
            /\ page' = 0
            /\ UNCHANGED << exc, target_flows, i >>
       ELSE /\ target_flows' = Collected(flows, response.data[1])
            /\ pc' = AfterFetch(source_flows, target_flows')
            /\ i' = 1
            /\ api_url' = FALSE
            /\ flows' = <<>>
            /\ page' = 0
            /\ UNCHANGED << exc, source_flows >>
  /\ UNCHANGED << source_url, target_url, include_diff_details, source_snapshots,
                  target_snapshots, comparisons, identical_flows, non_identical_flows,
                  missing_in_target, errors, snapshot_call, normalize_call, diff_call, fetch_call >>

\* the rest of a turn of the loop over source_flows, build_snapshot having run
SourceSnapshotBuilt(built) ==
  IF built.raised # <<>>
  THEN /\ pc' = "raised"
       /\ exc' = built.raised
       /\ UNCHANGED << i, source_snapshots >>
  ELSE /\ source_snapshots' = PutSnapshot(source_snapshots, built.snapshot)
       /\ IF i < Len(source_flows)
          THEN i' = i + 1 /\ pc' = pc
          ELSE i' = 1 /\ pc' = AfterBuildSource(target_flows, source_snapshots')
       /\ UNCHANGED exc

\* One turn of the loop over source_flows.
BuildSourceSnapshot ==
  /\ pc = "build_source"
  /\ SourceSnapshotBuilt(build_snapshot(source_flows[i], HostOf(source_url)))
  /\ UNCHANGED << source_url, target_url, include_diff_details, api_url, flows, page,
                  source_flows, target_flows, target_snapshots, comparisons,
                  identical_flows, non_identical_flows, missing_in_target, errors,
                  snapshot_call, normalize_call, diff_call, fetch_call >>

\* the rest of a turn of the loop over target_flows, build_snapshot having run
TargetSnapshotBuilt(built) ==
  IF built.raised # <<>>
  THEN /\ pc' = "raised"
       /\ exc' = built.raised
       /\ UNCHANGED << i, target_snapshots >>
  ELSE /\ target_snapshots' = PutSnapshot(target_snapshots, built.snapshot)
       /\ IF i < Len(target_flows)
          THEN i' = i + 1 /\ pc' = pc
          ELSE i' = 1 /\ pc' = AfterBuildTarget(source_snapshots)
       /\ UNCHANGED exc

\* One turn of the loop over target_flows.
BuildTargetSnapshot ==
  /\ pc = "build_target"
  /\ TargetSnapshotBuilt(build_snapshot(target_flows[i], HostOf(target_url)))
  /\ UNCHANGED << source_url, target_url, include_diff_details, api_url, flows, page,
                  source_flows, target_flows, source_snapshots, comparisons,
                  identical_flows, non_identical_flows, missing_in_target, errors,
                  snapshot_call, normalize_call, diff_call, fetch_call >>

\* Fault: the name appended to every list.
TallyAll(names, entry, status) == Append(names, entry.name)

\* `names` with name appended when the entry has the status of the list
Tally(names, entry, status) == IF entry.status = status THEN Append(names, entry.name) ELSE names

\* the rest of a turn of the loop over source_snapshots, the loop body having
\* run with `outcome`
FlowClassified(outcome) ==
  IF outcome.exc # ""
  THEN /\ pc' = "raised"
       /\ exc' = <<outcome.exc, outcome.error>>
       /\ UNCHANGED << i, comparisons, identical_flows, non_identical_flows,
                       missing_in_target, errors >>
  ELSE /\ comparisons' = Append(comparisons, outcome.entry[1])
       /\ identical_flows' = Tally(identical_flows, outcome.entry[1], "identical")
       /\ non_identical_flows' = Tally(non_identical_flows, outcome.entry[1], "different")
       /\ missing_in_target' = Tally(missing_in_target, outcome.entry[1], "missing_in_target")
       /\ errors' = Tally(errors, outcome.entry[1], "error")
       /\ i' = i + 1
       /\ pc' = IF i < Len(source_snapshots) THEN pc ELSE "done"
       /\ UNCHANGED exc

\* One turn of the loop over source_snapshots, and, after the last one, the
\* return of the result.
CompareFlow ==
  /\ pc = "compare"
  /\ \E order \in SetOrders :
       FlowClassified(Classify(source_snapshots[i],
                               SnapshotGet(target_snapshots, source_snapshots[i].name),
                               include_diff_details, order))
  /\ UNCHANGED << source_url, target_url, include_diff_details, api_url, flows, page,
                  source_flows, target_flows, source_snapshots, target_snapshots,
                  snapshot_call, normalize_call, diff_call, fetch_call >>

\* The dictionary compare_flows returns (pc = "done").
CompareFlowsResult ==
  [source_url |-> source_url,
   target_url |-> target_url,
   source_snapshots |-> source_snapshots,
   target_snapshots |-> target_snapshots,
   comparisons |-> comparisons,
   identical_flows |-> identical_flows,
   non_identical_flows |-> non_identical_flows,
   missing_in_target_count |-> Len(missing_in_target),
   missing_in_target |-> missing_in_target,
   error_count |-> Len(errors),
   errors |-> errors,
   source_count |-> Len(source_snapshots),
   target_count |-> Len(target_snapshots)]

Next ==
  \/ \E include \in BOOLEAN : CompareFlowsCall(include)
  \/ FetchFlowsStep
  \/ BuildSourceSnapshot
  \/ BuildTargetSnapshot
  \/ CompareFlow

Spec == Init /\ [][Next]_vars

(***************************************************************************)
(* build_snapshot on its own: one call, on a flow record and a host drawn  *)
(* from the inputs below.                                                  *)
(***************************************************************************)
SnapshotAlphabet == {"{", "}", "[", "]", "\"", "1", "-", " "}

\* every text of at most MaxTextLen characters of the alphabet
ShortTexts == SeqsUpTo(SnapshotAlphabet, MaxTextLen)

\* n brackets around a 1, as text
NestedText(n) == [k \in 1..n |-> "["] \o <<"1">> \o [k \in 1..n |-> "]"]

\* n lists around a 1, as a value
RECURSIVE NestedList(_)
NestedList(n) == IF n = 0 THEN JInt(1) ELSE JList(<<Item(NestedList(n - 1))>>)

\* Nestings of lists: json.loads needs 5 + n levels and traverse 3 + 2n, so
\* that the shallow ones are canonicalized, the middle ones are parsed and
\* not canonicalized, and the deep ones are not parsed.
Nestings == 1..RecursionLimit

SnapshotTexts ==
  { TextSend.s, TextSendSame.s, TextActionList.s, TextBroken.s,
    <<"{", "\"", "a", "\"", ":", "1", "}", "}">>, <<"n", "o", "p", "e">>, <<"n", "u", "l", "l">>, <<"f", "a", "l", "s", "e">>, <<"\"", "\"">>, <<" ", " ">>, <<"\"", "a", "\t", "\"">>, <<"\"", "\\", "q", "\"">>,
    <<"{", "\"", "i", "d", "\"", ":", "1", ",", "\"", "c", "o", "n", "n", "e", "c", "t", "i", "o", "n", "N", "a", "m", "e", "\"", ":", "2", ",", "\"", "e", "t", "a", "g", "\"", ":", "3", "}">>, <<"{", "\"", "b", "\"", ":", "[", "1", ",", "{", "\"", "a", "\"", ":", "\"", "s", ".", "i", "o", "\"", "}", "]", ",", "\"", "a", "\"", ":", "n", "u", "l", "l", "}">> }
  \cup {NestedText(n) : n \in Nestings}

\* clientdata that is not a str
SnapshotValues ==
  { JNull, JStr(<<>>), JInt(0), JBool(FALSE), JList(<<>>), JDict(<<>>),
    JBool(TRUE), JInt(5), JDict(<<Entry(<<"a">>, JInt(1))>>) }
  \cup {NestedList(n) : n \in Nestings}

SnapshotFlows ==
  {Flow(FlowKeys, "w", "n", JStr(t)) : t \in ShortTexts \cup SnapshotTexts}
  \cup {Flow(FlowKeys, "w", "n", v) : v \in SnapshotValues}
  \cup {Flow({}, "", "", JNull), Flow({"name"}, "", "n", JNull),
        Flow({"clientdata"}, "", "", TextSend)}

SnapshotHosts == {<<>>, HostOf(SourceUrl)}

InitSnapshot ==
  /\ Idle
  /\ snapshot_call \in [flow : SnapshotFlows, env_host : SnapshotHosts, out : {<<>>}]
  /\ normalize_call = NoCall
  /\ diff_call = NoCall
  /\ fetch_call = NoCall

\* build_snapshot(flow, env_host) is called and returns or raises
BuildSnapshotCall ==
  /\ snapshot_call.out = <<>>
  /\ snapshot_call' =
       [snapshot_call EXCEPT !.out = <<build_snapshot(snapshot_call.flow,
                                                      snapshot_call.env_host)>>]
  /\ UNCHANGED << pc, source_url, target_url, include_diff_details, api_url, flows, page,
                  source_flows, target_flows, i, source_snapshots, target_snapshots,
                  comparisons, identical_flows, non_identical_flows, missing_in_target,
                  errors, exc, normalize_call, diff_call, fetch_call >>

NextSnapshot == BuildSnapshotCall

SpecSnapshot == InitSnapshot /\ [][NextSnapshot]_vars

(***************************************************************************)
(* normalize_flow_definition on its own: the calls made for a tree and a   *)
(* second tree, each with the host of its environment, and the call made   *)
(* for the parsed canonical text of the first.                             *)
(***************************************************************************)
\* a GUID whose hex digits are all c
GuidOf(c) == [k \in 1..Len(GuidPattern) |-> IF GuidPattern[k] = "h" THEN c ELSE "-"]

GuidLower == GuidOf("a")
GuidUpper == GuidOf("F")

HostSource == HostOf(SourceUrl)
HostTarget == HostOf(TargetUrl)

\* a host name in capital letters
HostCapitals == <<"H", "O", "S", "T">>

NormalizeHosts == {<<>>, HostSource, HostTarget, HostCapitals}

\* keys of mappings
NormalizeKeys ==
  { <<"a">>, <<"b">>, <<"i", "d">>, <<"I", "d">>, <<"I", "D">>, <<"i", "D">>, <<"u", "i", "d">>, <<"a", CharNewline, "i", "d">>, <<"i", "d", CharNewline>>, <<"i", "d", "a">>,
    <<"e", "t", "a", "g">>, <<"C", "o", "n", "n", "e", "c", "t", "i", "o", "n">>, <<"c", "o", "n", "n", "e", "c", "t", "i", "o", "n", "x">>, <<"a", "c", "o", "n", "n", "e", "c", "t", "i", "o", "n">>, GuidLower }

\* scalars
NormalizeLeaves ==
  { JInt(1), JInt(2), JNull, JStr(<<"x">>), JStr(GuidLower), JStr(<<"u">> \o GuidUpper \o <<"0">>),
    JStr(HostSource \o <<"/">>), JStr(HostSource \o <<" ">> \o HostTarget), JStr(HostCapitals) }

\* { key: v }
One(key, v) == JDict(<<Entry(key, v)>>)

\* [ v, w ]
Two(v, w) == JList(<<Item(v), Item(w)>>)

NormalizeLists == {Two(v, w) : v, w \in NormalizeLeaves}

NormalizeTrees ==
  NormalizeLeaves
  \cup {One(key, v) : key \in NormalizeKeys, v \in NormalizeLeaves}
  \cup NormalizeLists
  \cup {One(key, Two(JInt(1), JInt(2))) : key \in NormalizeKeys}
  \cup {One(<<"a">>, One(key, JStr(GuidLower))) : key \in NormalizeKeys}
  \cup {JDict(<<Entry(<<"b">>, JInt(2)), Entry(key, One(<<"I", "D">>, JInt(1)))>>) : key \in NormalizeKeys \ {<<"b">>}}
  \cup {Two(One(key, JInt(1)), One(key, JInt(2))) : key \in NormalizeKeys}

\* text with every GUID replaced by the GUID `guid`
RECURSIVE ReguidFrom(_, _, _)
ReguidFrom(text, guid, k) ==
  IF k >= Len(text) THEN <<>>
  ELSE IF GuidAt(text, k) THEN guid \o ReguidFrom(text, guid, k + Len(GuidPattern))
  ELSE <<text[k + 1]>> \o ReguidFrom(text, guid, k + 1)

\* text as it reads in the other environment: other GUIDs, the other host
TranslateText(text, host, other_host) ==
  LET reguided == ReguidFrom(text, GuidOf("7"), 0)
  IN  IF host = <<>> THEN reguided ELSE ReplaceFrom(reguided, host, other_host, 0)

\* the tree with every text of it (keys and string scalars) translated
RECURSIVE Translate(_, _, _)
Translate(tree, host, other_host) ==
  IF tree.t = "str" THEN JStr(TranslateText(tree.s, host, other_host))
  ELSE IF tree.t = "list"
  THEN JList([k \in 1..Len(tree.c) |-> Item(Translate(tree.c[k].v, host, other_host))])
  ELSE IF tree.t = "dict"
  THEN JDict([k \in 1..Len(tree.c) |->
                Entry(TranslateText(tree.c[k].k, host, other_host),
                      Translate(tree.c[k].v, host, other_host))])
  ELSE tree

\* the list with its first two elements swapped
SwapItems(list) == JList(<<list.c[2], list.c[1]>> \o SubSeq(list.c, 3, Len(list.c)))

\* the tree with the first two elements of its array swapped: the array is
\* the tree or the value of its only key
SwapTwo(tree) ==
  IF tree.t = "list" /\ Len(tree.c) >= 2 THEN SwapItems(tree)
  ELSE IF tree.t = "dict" /\ Len(tree.c) = 1 /\ tree.c[1].v.t = "list" /\ Len(tree.c[1].v.c) >= 2
  THEN One(tree.c[1].k, SwapItems(tree.c[1].v))
  ELSE tree

NormalizeCalls ==
  {[flow_json |-> t, env_host |-> HostSource,
    other_json |-> Translate(t, HostSource, HostTarget), other_host |-> HostTarget,
    out |-> <<>>, other_out |-> <<>>, again |-> <<>>] : t \in NormalizeTrees}
  \cup {[flow_json |-> t, env_host |-> h, other_json |-> SwapTwo(t), other_host |-> h,
         out |-> <<>>, other_out |-> <<>>, again |-> <<>>] :
          t \in NormalizeTrees, h \in NormalizeHosts}

InitNormalize ==
  /\ Idle
  /\ snapshot_call = NoCall
  /\ normalize_call \in NormalizeCalls
  /\ diff_call = NoCall
  /\ fetch_call = NoCall

UnchangedCompareFlows ==
  UNCHANGED << pc, source_url, target_url, include_diff_details, api_url, flows, page,
               source_flows, target_flows, i, source_snapshots, target_snapshots,
               comparisons, identical_flows, non_identical_flows, missing_in_target,
               errors, exc >>

\* normalize_flow_definition(flow_json, env_host) is called and returns or raises
NormalizeCall ==
  /\ normalize_call.out = <<>>
  /\ normalize_call' =
       [normalize_call EXCEPT !.out = <<normalize_flow_definition(normalize_call.flow_json,
                                                                  normalize_call.env_host, 1)>>]
  /\ UnchangedCompareFlows
  /\ UNCHANGED << snapshot_call, diff_call, fetch_call >>

\* normalize_flow_definition(other_json, other_host) is called and returns or raises
NormalizeOtherCall ==
  /\ normalize_call.out # <<>>
  /\ normalize_call.other_out = <<>>
  /\ normalize_call' =
       [normalize_call EXCEPT !.other_out = <<normalize_flow_definition(normalize_call.other_json,
                                                                        normalize_call.other_host, 1)>>]
  /\ UnchangedCompareFlows
  /\ UNCHANGED << snapshot_call, diff_call, fetch_call >>

\* the canonical text of the first call is parsed, and
\* normalize_flow_definition is called for the tree with the same host
RenormalizeCall ==
  /\ normalize_call.out # <<>>
  /\ normalize_call.out[1].ok
  /\ normalize_call.again = <<>>
  /\ normalize_call' =
       [normalize_call EXCEPT !.again = <<normalize_flow_definition(
                                             Loads(normalize_call.out[1].canonical, 1).v,
                                             normalize_call.env_host, 1)>>]
  /\ UnchangedCompareFlows
  /\ UNCHANGED << snapshot_call, diff_call, fetch_call >>

NextNormalize == NormalizeCall \/ NormalizeOtherCall \/ RenormalizeCall

SpecNormalize == InitNormalize /\ [][NextNormalize]_vars

(***************************************************************************)
(* compare_flows after two fetches that have succeeded, each with one flow *)
(* of the name A: the definitions have the actions `name` and b, each with *)
(* an inputs.uri.                                                          *)
(***************************************************************************)
\* the clientdata text of a flow with the actions `name` and b
ScenarioText(workflowid, ref, name, uri) ==
  <<"{", "\"", "w", "o", "r", "k", "f", "l", "o", "w", "i", "d", "\"", ":", "\"">> \o workflowid
  \o <<"\"", ",", "\"", "c", "o", "n", "n", "e", "c", "t", "i", "o", "n", "R", "e", "f", "e", "r", "e", "n", "c", "e", "s", "\"", ":", "{", "\"", "c", "\"", ":">> \o ref
  \o <<"}", ",", "\"", "d", "e", "f", "i", "n", "i", "t", "i", "o", "n", "\"", ":", "{", "\"", "a", "c", "t", "i", "o", "n", "s", "\"", ":", "{", "\"">> \o name
  \o <<"\"", ":", "{", "\"", "i", "n", "p", "u", "t", "s", "\"", ":", "{", "\"", "u", "r", "i", "\"", ":", "\"">> \o uri
  \o <<"\"", "}", "}", ",", "\"", "b", "\"", ":", "{", "\"", "i", "n", "p", "u", "t", "s", "\"", ":", "{", "\"", "u", "r", "i", "\"", ":", "\"", "u", "\"", "}", "}", "}", "}", "}">>

ScenarioIds == {<<"1">>, <<"2">>}
ScenarioNames == {<<"a">>, <<"G", "e", "t", "I", "d">>}
ScenarioUris ==
  { <<"u">>, <<"v">>, HostSource \o <<"/", "x">>, HostTarget \o <<"/", "x">> }

ScenarioFlows ==
  {Flow(FlowKeys, id, "A", JStr(ScenarioText(id, id, name, uri))) :
     id \in ScenarioIds, name \in ScenarioNames, uri \in ScenarioUris}

InitCompare ==
  /\ pc = "build_source"
  /\ source_url = SourceUrl
  /\ target_url = TargetUrl
  /\ include_diff_details \in BOOLEAN
  /\ api_url = FALSE
  /\ flows = <<>>
  /\ page = 0
  /\ source_flows \in {<<flow>> : flow \in ScenarioFlows}
  /\ target_flows \in {<<flow>> : flow \in ScenarioFlows}
  /\ i = 1
  /\ source_snapshots = <<>>
  /\ target_snapshots = <<>>
  /\ comparisons = <<>>
  /\ identical_flows = <<>>
  /\ non_identical_flows = <<>>
  /\ missing_in_target = <<>>
  /\ errors = <<>>
  /\ exc = <<>>
  /\ snapshot_call = NoCall
  /\ normalize_call = NoCall
  /\ diff_call = NoCall
  /\ fetch_call = NoCall

NextCompare == BuildSourceSnapshot \/ BuildTargetSnapshot \/ CompareFlow

SpecCompare == InitCompare /\ [][NextCompare]_vars

(***************************************************************************)
(* compute_diff and compute_action_differences on their own: the calls are *)
(* made for two serialized trees, compute_diff in both directions and for  *)
(* the first tree with itself. Each call iterates its sets in an order of  *)
(* its own.                                                                *)
(***************************************************************************)
\* { key: v, other: w }
Both(key, v, other, w) == JDict(<<Entry(key, v), Entry(other, w)>>)

\* { "definition": { "actions": actions } }
FlowOf(actions) == One(KeyDefinition, One(KeyActions, actions))

DiffTrees ==
  { JDict(<<>>),
    JList(<<>>),
    JInt(1),
    JStr(<<"x">>),
    Two(JInt(1), JList(<<>>)),
    JList(<<Item(JInt(2))>>),
    Both(<<"a">>, One(<<"p">>, JInt(1)), <<"b">>, One(<<"q">>, JInt(1))),
    Both(<<"a">>, JDict(<<>>), <<"b">>, JDict(<<>>)),
    FlowOf(Both(<<"x">>, One(<<"p">>, JInt(1)), <<"y">>, JDict(<<>>))),
    FlowOf(JDict(<<Entry(<<"x">>, One(<<"p">>, JInt(2))), Entry(<<"z">>, JDict(<<>>)),
                   Entry(<<"w">>, JDict(<<>>))>>)),
    FlowOf(JList(<<Item(JInt(1))>>)),
    FlowOf(JDict(<<>>)),
    One(KeyProperties, FlowOf(One(<<"x">>, One(<<"p">>, JInt(1))))),
    JNull,
    One(<<"a">>, JNull),
    FlowOf(One(<<"x">>, JDict(<<Entry(<<"p">>, JInt(2)), Entry(<<"q">>, JInt(1)),
                                Entry(<<"r">>, JList(<<Item(JInt(1))>>))>>))),
    Both(KeyProperties, One(KeyDefinition, JNull),
         KeyDefinition, One(KeyActions, One(<<"x">>, JDict(<<>>)))),
    FlowOf(One(<<"x">>, One(<<"v">>, JFloat(<<"0", ".", "0">>)))),
    FlowOf(One(<<"x">>, One(<<"v">>, JFloat(<<"-", "0", ".", "0">>)))),
    FlowOf(Both(<<"x">>, One(<<"p">>, JInt(2)), <<"y">>, JDict(<<>>))) }

\* the calls to make for two trees: no call is made yet
DiffCalls ==
  {[json_a |-> DumpsSorted(a), json_b |-> DumpsSorted(b),
    forth |-> <<>>, back |-> <<>>, same |-> <<>>, differences |-> <<>>] : a, b \in DiffTrees}

InitDiff ==
  /\ Idle
  /\ snapshot_call = NoCall
  /\ normalize_call = NoCall
  /\ diff_call \in DiffCalls
  /\ fetch_call = NoCall

\* compute_diff(json_a, json_b) is called and returns or raises
DiffCall ==
  /\ diff_call.forth = <<>>
  /\ \E order \in SetOrders :
       diff_call' = [diff_call EXCEPT
                       !.forth = <<compute_diff(diff_call.json_a, diff_call.json_b, 1, order)>>]
  /\ UnchangedCompareFlows
  /\ UNCHANGED << snapshot_call, normalize_call, fetch_call >>

\* compute_diff(json_b, json_a) is called and returns or raises
DiffBackCall ==
  /\ diff_call.back = <<>>
  /\ \E order \in SetOrders :
       diff_call' = [diff_call EXCEPT
                       !.back = <<compute_diff(diff_call.json_b, diff_call.json_a, 1, order)>>]
  /\ UnchangedCompareFlows
  /\ UNCHANGED << snapshot_call, normalize_call, fetch_call >>

\* compute_diff(json_a, json_a) is called and returns or raises
DiffSameCall ==
  /\ diff_call.same = <<>>
  /\ \E order \in SetOrders :
       diff_call' = [diff_call EXCEPT
                       !.same = <<compute_diff(diff_call.json_a, diff_call.json_a, 1, order)>>]
  /\ UnchangedCompareFlows
  /\ UNCHANGED << snapshot_call, normalize_call, fetch_call >>

\* compute_action_differences(json_a, json_b) is called and returns or raises
ActionDifferencesCall ==
  /\ diff_call.differences = <<>>
  /\ \E order \in SetOrders :
       diff_call' = [diff_call EXCEPT
                       !.differences = <<compute_action_differences(diff_call.json_a,
                                                                    diff_call.json_b, 1, order)>>]
  /\ UnchangedCompareFlows
  /\ UNCHANGED << snapshot_call, normalize_call, fetch_call >>

NextDiff == DiffCall \/ DiffBackCall \/ DiffSameCall \/ ActionDifferencesCall

SpecDiff == InitDiff /\ [][NextDiff]_vars

(***************************************************************************)
(* fetch_flows on its own, against a server that holds the flows in pages: *)
(* every page but the last has an "@odata.nextLink" to the next one. A     *)
(* request is answered with the page of the URL, with a status that is not *)
(* 200, or not at all.                                                     *)
(***************************************************************************)
\* Most pages a server holds.
MaxServerPages == 2
\* Most requests a call of fetch_flows makes.
MaxRequests == 4

\* the bodies of a page, but for the link
PageBodies ==
  { [value |-> <<<<>>>>, record |-> <<>>],
    [value |-> <<<<Flow(FlowKeys, "w1", "A", TextSend)>>>>, record |-> <<>>],
    [value |-> <<<<Flow(FlowKeys, "w2", "A", JNull), Flow(FlowKeys, "w3", "B", TextActionList)>>>>,
     record |-> <<>>],
    [value |-> <<>>, record |-> <<Flow(FlowKeys, "w3", "B", TextActionList)>>],
    [value |-> <<>>, record |-> <<>>] }

\* the pages of a server: the page at k links to the page at k + 1
ServerPages ==
  UNION { { [k \in 1..n |-> [value |-> bodies[k].value, record |-> bodies[k].record,
                              nextLink |-> k < n]] : bodies \in [1..n -> PageBodies] } :
          n \in 1..MaxServerPages }

\* what requests.get does for the URL of a page
ServerResponses(body) ==
  {[raises |-> TRUE, status_code |-> 0, data |-> <<>>]}
  \cup {[raises |-> FALSE, status_code |-> c, data |-> <<>>] : c \in StatusCodes \ {200}}
  \cup {[raises |-> FALSE, status_code |-> 200, data |-> <<body>>]}

\* A call of fetch_flows: url is the index of the page api_url points to (0
\* when api_url is None), flows and page are the locals of the call,
\* status is the status of the last response (0 before the first, and when
\* requests.get raised), served the URLs answered with a page so far, out
\* the list returned, raised the exception that left the call.
FetchCalls ==
  {[pages |-> pages, url |-> 1, flows |-> <<>>, page |-> 0, status |-> 0, served |-> <<>>,
    out |-> <<>>, raised |-> <<>>] : pages \in ServerPages}

InitFetch ==
  /\ Idle
  /\ snapshot_call = NoCall
  /\ normalize_call = NoCall
  /\ diff_call = NoCall
  /\ fetch_call \in FetchCalls

\* the call after `response` is received for the URL of the page `url`
Fetched(call, response) ==
  IF FetchError(response) # <<>>
  THEN [call EXCEPT !.page = @ + 1, !.status = response.status_code,
                    !.raised = FetchError(response)]
  ELSE IF Transient(response)
  THEN [call EXCEPT !.page = @ + 1, !.status = response.status_code]
  ELSE [call EXCEPT !.page = @ + 1, !.status = response.status_code,
                    !.served = Append(@, call.url),
                    !.flows = Collected(call.flows, response.data[1]),
                    !.url = IF response.data[1].nextLink THEN call.url + 1 ELSE 0,
                    !.out = IF response.data[1].nextLink
                            THEN <<>>
                            ELSE <<Collected(call.flows, response.data[1])>>]

\* One turn of the paging loop of fetch_flows, and, when the loop ends, the
\* return.
FetchCallStep ==
  /\ fetch_call.url > 0
  /\ fetch_call.raised = <<>>
  /\ fetch_call.page < MaxRequests
  /\ \E response \in ServerResponses(fetch_call.pages[fetch_call.url]) :
       fetch_call' = Fetched(fetch_call, response)
  /\ UnchangedCompareFlows
  /\ UNCHANGED << snapshot_call, normalize_call, diff_call >>

NextFetch == FetchCallStep

SpecFetch == InitFetch /\ [][NextFetch]_vars

(***************************************************************************)
(* Properties.                                                             *)
(***************************************************************************)
\* the names of the two inventories (flow.get("name", ""))
SourceNames == {FlowGet(source_flows[k], "name", "") : k \in 1..Len(source_flows)}
TargetNames == {FlowGet(target_flows[k], "name", "") : k \in 1..Len(target_flows)}

\* the elements of a list
Elements(q) == {q[k] : k \in 1..Len(q)}

\* the names of the entries of comparisons
ComparedNames == {comparisons[k].name : k \in 1..Len(comparisons)}

\* the names in the four status lists
ListedNames ==
  Elements(identical_flows) \cup Elements(non_identical_flows)
  \cup Elements(missing_in_target) \cup Elements(errors)

\* the exceptions of a failed fetch
FetchFailures == {"RequestException", "HTTPError"}

\* C1: when compare_flows returns, the names of the entries of comparisons
\* are exactly the names of the source inventory, each exactly once; and a
\* name that occurs only in the target inventory is at no time in comparisons
\* or in a status list.
C1_SourceNamesOnce ==
  /\ pc = "done" =>
       /\ ComparedNames = SourceNames
       /\ \A k, l \in 1..Len(comparisons) : comparisons[k].name = comparisons[l].name => k = l
  /\ (TargetNames \ SourceNames) \cap (ComparedNames \cup ListedNames) = {}

\* C1 happens: a run returns for a source inventory that repeats a name and
\* whose snapshot has an error, and a target inventory with a name of its own.
C1_Witness ==
  /\ pc = "done"
  /\ Len(source_flows) = 2
  /\ source_flows[1].name = source_flows[2].name
  /\ source_snapshots[1].error # <<>>
  /\ TargetNames \ SourceNames # {}
  /\ Len(comparisons) = 1

\* C2 as stated: once both fetches have succeeded, no per-flow condition
\* stops the run, that is, the only exceptions that leave compare_flows are
\* those of a failed fetch.
C2_OnlyFetchStopsRun == pc = "raised" => exc[1] \in FetchFailures

\* C3: an entry whose two snapshots were built without error has status
\* "identical" if the two canonical_json strings are equal and "different" if
\* not, and its `identical` flag agrees with the status.
C3_IdenticalIffCanonicalEqual ==
  \A k \in 1..Len(comparisons) :
    LET e == comparisons[k]
    IN  (e.target # <<>> /\ e.source.error = <<>> /\ e.target[1].error = <<>>) =>
          /\ e.status = IF e.source.canonical_json = e.target[1].canonical_json
                        THEN "identical" ELSE "different"
          /\ e.identical = (e.status = "identical")

\* C3 happens: one result holds an identical pair and a different pair.
C3_Witness ==
  /\ pc = "done"
  /\ \E k, l \in 1..Len(comparisons) :
       /\ comparisons[k].status = "identical"
       /\ comparisons[k].source.canonical_json # <<>>
       /\ comparisons[l].status = "different"
       /\ comparisons[l].target[1].canonical_json # <<>>

\* C4: an entry whose name is absent from the target inventory has status
\* "missing_in_target", target None, identical False, and neither diff nor
\* action differences; and no name of the target inventory has that status or
\* is in the missing_in_target list.
C4_MissingInTarget ==
  /\ \A k \in 1..Len(comparisons) :
       LET e == comparisons[k]
       IN  /\ e.name \notin TargetNames =>
                /\ e.status = "missing_in_target"
                /\ e.target = <<>>
                /\ e.identical = FALSE
                /\ e.diff = <<>>
                /\ e.action_differences = <<>>
           /\ e.status = "missing_in_target" => e.name \notin TargetNames
  /\ Elements(missing_in_target) \cap TargetNames = {}

\* C4 happens: a name of the source inventory that the target inventory
\* lacks is classified, next to a name that both have.
C4_Witness ==
  /\ pc = "done"
  /\ \E k, l \in 1..Len(comparisons) :
       /\ comparisons[k].status = "missing_in_target"
       /\ comparisons[l].name \in TargetNames

\* C5 as stated: every entry whose source snapshot has an error has status
\* "error".
C5_ErrorOnEitherSide ==
  \A k \in 1..Len(comparisons) :
    comparisons[k].source.error # <<>> => comparisons[k].status = "error"

\* the turn of the loop that appends an "error" entry goes on to the next name
ErrorTurnContinues ==
  (/\ Len(comparisons') = Len(comparisons) + 1
   /\ comparisons'[Len(comparisons')].status = "error")
  => /\ i' = i + 1
     /\ pc' = IF i < Len(source_snapshots) THEN "compare" ELSE "done"
     /\ exc' = <<>>

\* C5, amended: for every name present in both inventories, an error in the
\* snapshot of either side gives the status "error"; the turn that classifies
\* it goes on to the next name, and when compare_flows returns every name of
\* the source inventory has an entry.
C5_ErrorWhenInBoth ==
  /\ [](/\ \A k \in 1..Len(comparisons) :
             LET e == comparisons[k]
             IN  (/\ e.name \in TargetNames
                  /\ \/ e.source.error # <<>>
                     \/ \E t \in Elements(target_snapshots) : t.name = e.name /\ t.error # <<>>)
                 => e.status = "error"
        /\ pc = "done" => ComparedNames = SourceNames)
  /\ [][ErrorTurnContinues]_vars

\* C5 happens: a source flow without clientdata whose name the target has is
\* classified "error", and the name after it is classified too.
C5_Witness ==
  /\ pc = "done"
  /\ Len(comparisons) = 2
  /\ comparisons[1].status = "error"
  /\ comparisons[1].source.error = <<"clientdata missing or empty">>
  /\ comparisons[1].name \in TargetNames

\* C6 as stated: an entry has a diff and a list of action differences if and
\* only if its status is "different".
C6_DetailsIffDifferent ==
  \A k \in 1..Len(comparisons) :
    LET e == comparisons[k]
    IN  /\ e.diff # <<>> <=> e.status = "different"
        /\ e.action_differences # <<>> <=> e.status = "different"

\* C6, amended: an entry has a diff and a list of action differences if and
\* only if its status is "different" and compare_flows was called with
\* include_diff_details true.
C6_DetailsIffDifferentAndAsked ==
  \A k \in 1..Len(comparisons) :
    LET e == comparisons[k]
    IN  /\ e.diff # <<>> <=> (e.status = "different" /\ include_diff_details)
        /\ e.action_differences # <<>> <=> (e.status = "different" /\ include_diff_details)

\* C6 happens: a result of a call with include_diff_details true holds a
\* different pair with its changes and its action differences.
C6_Witness ==
  /\ pc = "done"
  /\ include_diff_details
  /\ \E k \in 1..Len(comparisons) :
       /\ comparisons[k].status = "different"
       /\ comparisons[k].diff # <<>>
       /\ comparisons[k].diff[1].changed # <<>>
       /\ comparisons[k].action_differences # <<>>
       /\ comparisons[k].action_differences[1] # <<>>

\* the status list that holds the names of a status
StatusList(result, status) ==
  CASE status = "identical" -> result.identical_flows
    [] status = "different" -> result.non_identical_flows
    [] status = "missing_in_target" -> result.missing_in_target
    [] status = "error" -> result.errors

Statuses == {"identical", "different", "missing_in_target", "error"}

\* C7: in the result of compare_flows the four status lists are pairwise
\* disjoint, a name is in the list of a status exactly when its entry has
\* that status, the lengths of the lists add up to source_count and to the
\* length of comparisons, missing_in_target_count and error_count are the
\* lengths of their lists, and source_count and target_count are the numbers
\* of snapshots, one for each name of an inventory.
C7_Tallies ==
  pc = "done" =>
    LET result == CompareFlowsResult
    IN  /\ \A a, b \in Statuses :
             a # b => Elements(StatusList(result, a)) \cap Elements(StatusList(result, b)) = {}
        /\ \A k \in 1..Len(result.comparisons) : \A a \in Statuses :
             result.comparisons[k].name \in Elements(StatusList(result, a))
               <=> result.comparisons[k].status = a
        /\ Len(result.identical_flows) + Len(result.non_identical_flows)
             + Len(result.missing_in_target) + Len(result.errors) = result.source_count
        /\ result.source_count = Len(result.comparisons)
        /\ result.missing_in_target_count = Len(result.missing_in_target)
        /\ result.error_count = Len(result.errors)
        /\ result.source_count = Len(source_snapshots)
        /\ result.target_count = Len(target_snapshots)
        /\ {source_snapshots[k].name : k \in 1..Len(source_snapshots)} = SourceNames
        /\ {target_snapshots[k].name : k \in 1..Len(target_snapshots)} = TargetNames
        /\ result.source_count = Cardinality(SourceNames)
        /\ result.target_count = Cardinality(TargetNames)

\* C7 happens: a result with two entries of different statuses, for a target
\* inventory that repeats a name.
C7_Witness ==
  /\ pc = "done"
  /\ Len(comparisons) = 2
  /\ comparisons[1].status # comparisons[2].status
  /\ Len(target_flows) = 2
  /\ Len(target_snapshots) = 1

\* the snapshot has a canonical form and a hash and no error
Canonicalized(snapshot) ==
  snapshot.canonical_json # <<>> /\ snapshot.hash # <<>> /\ snapshot.error = <<>>

\* the snapshot has an error and neither canonical form nor hash
Failed(snapshot) ==
  snapshot.error # <<>> /\ snapshot.canonical_json = <<>> /\ snapshot.hash = <<>>

\* C8: a snapshot that build_snapshot returns either has a canonical_json
\* and a hash and no error, or has an error and neither canonical_json nor
\* hash: one of the two, never both, never neither.
C8_CanonicalXorError ==
  (snapshot_call.out # <<>> /\ snapshot_call.out[1].raised = <<>>) =>
    Canonicalized(snapshot_call.out[1].snapshot) # Failed(snapshot_call.out[1].snapshot)

\* C8 happens: build_snapshot has returned a snapshot with a canonical form
\* for a definition given as text.
C8_Witness ==
  /\ snapshot_call.out # <<>>
  /\ snapshot_call.flow.clientdata.t = "str"
  /\ Len(snapshot_call.flow.clientdata.s) > MaxTextLen
  /\ Canonicalized(snapshot_call.out[1].snapshot)

\* the clientdata of the call is absent, None or empty (a str, list or dict)
NoClientdata ==
  \/ "clientdata" \notin snapshot_call.flow.keys
  \/ snapshot_call.flow.clientdata \in {JNull, JStr(<<>>), JList(<<>>), JDict(<<>>)}

\* C9 as stated: for a record whose clientdata is absent, null or empty the
\* snapshot has the error "definition missing or empty" and neither
\* canonical_json nor hash.
C9_DefinitionMissing ==
  (snapshot_call.out # <<>> /\ NoClientdata) =>
    /\ snapshot_call.out[1].snapshot.error = <<"definition missing or empty">>
    /\ snapshot_call.out[1].snapshot.canonical_json = <<>>
    /\ snapshot_call.out[1].snapshot.hash = <<>>

\* C9, amended: for a record whose clientdata is absent, null or empty the
\* snapshot has the error "clientdata missing or empty" and neither
\* canonical_json nor hash.
C9_ClientdataMissing ==
  (snapshot_call.out # <<>> /\ NoClientdata) =>
    /\ snapshot_call.out[1].raised = <<>>
    /\ snapshot_call.out[1].snapshot.error = <<"clientdata missing or empty">>
    /\ snapshot_call.out[1].snapshot.canonical_json = <<>>
    /\ snapshot_call.out[1].snapshot.hash = <<>>

\* C9 happens: build_snapshot has returned for a record with an empty
\* clientdata string.
C9_Witness ==
  /\ snapshot_call.out # <<>>
  /\ "clientdata" \in snapshot_call.flow.keys
  /\ snapshot_call.flow.clientdata = JStr(<<>>)

\* C10: build_snapshot raises nothing; when the clientdata does not parse,
\* or the parsed value cannot be canonicalized, the snapshot it returns has
\* the message of the failure as its error and neither canonical_json nor
\* hash; and the call leaves the flow record as it was.
C10_NeverRaises ==
  /\ [](snapshot_call.out # <<>> =>
          /\ snapshot_call.out[1].raised = <<>>
          /\ (~NoClientdata /\ snapshot_call.flow.clientdata \notin {JInt(0), JBool(FALSE)}
               /\ SnapshotTry(snapshot_call.flow.clientdata,
                                           snapshot_call.env_host).exc # "") =>
               /\ snapshot_call.out[1].snapshot.error =
                    <<SnapshotTry(snapshot_call.flow.clientdata, snapshot_call.env_host).error>>
               /\ snapshot_call.out[1].snapshot.error # <<"">>
               /\ snapshot_call.out[1].snapshot.canonical_json = <<>>
               /\ snapshot_call.out[1].snapshot.hash = <<>>)
  /\ [][snapshot_call'.flow = snapshot_call.flow]_vars

\* C10 happens: build_snapshot has returned for a text that parses and whose
\* value cannot be canonicalized.
C10_Witness ==
  /\ snapshot_call.out # <<>>
  /\ snapshot_call.flow.clientdata.t = "str"
  /\ Loads(snapshot_call.flow.clientdata.s, 1).ok
  /\ Failed(snapshot_call.out[1].snapshot)

\* The canonical tree has, at every mapping of the tree, the keys of the tree
\* but those of `ignored`, and so on below every key it has.
RECURSIVE KeysKept(_, _, _)
KeysKept(tree, canonical, ignored) ==
  IF tree.t = "dict"
  THEN /\ canonical.t = "dict"
       /\ KeySet(canonical) = KeySet(tree) \ ignored
       /\ \A key \in KeySet(canonical) : KeysKept(Get(tree, key), Get(canonical, key), ignored)
  ELSE IF tree.t = "list"
  THEN /\ canonical.t = "list"
       /\ Len(canonical.c) = Len(tree.c)
       /\ \A k \in 1..Len(tree.c) : KeysKept(tree.c[k].v, canonical.c[k].v, ignored)
  ELSE TRUE

ConnectionPrefix == <<"c", "o", "n", "n", "e", "c", "t", "i", "o", "n">>

\* the keys to ignore: listed, ending with id in any letter case, or
\* starting with connection in any letter case
IgnoredAnyCase ==
  ignore_keys
  \cup {key \in NormalizeKeys : \/ EndsWith(Lower(key), <<"i", "d">>)
                               \/ StartsWith(Lower(key), ConnectionPrefix)}

\* the keys to ignore: listed, matched by the pattern .*[iI]d$, or starting
\* with connection in any letter case
IgnoredByPattern ==
  ignore_keys
  \cup {key \in NormalizeKeys : \/ MatchIdSuffix(key)
                               \/ StartsWith(Lower(key), ConnectionPrefix)}

\* the first call of normalize_flow_definition has returned a canonical text
Normalized == normalize_call.out # <<>> /\ normalize_call.out[1].ok

\* the tree that the canonical text of the first call stands for
CanonicalTree == Loads(normalize_call.out[1].canonical, 1).v

\* C11 as stated: no mapping of the canonical output has a key that is in the
\* ignore set, ends with id in any letter case or starts with connection in
\* any letter case, and every other key of the input is kept.
C11_KeysAnyCase ==
  Normalized => KeysKept(normalize_call.flow_json, CanonicalTree, IgnoredAnyCase)

\* C11, amended: no mapping of the canonical output has a key that is in the
\* ignore set, is matched by the pattern .*[iI]d$ or starts with connection
\* in any letter case, and every other key of the input that is not below a
\* removed key is kept.
C11_KeysByPattern ==
  Normalized => KeysKept(normalize_call.flow_json, CanonicalTree, IgnoredByPattern)

\* C11 happens: a tree is canonicalized that has the key ID below a key with
\* a line break before its id.
C11_Witness ==
  /\ Normalized
  /\ normalize_call.flow_json.t = "dict"
  /\ \E key \in KeySet(normalize_call.flow_json) :
       /\ EndsWith(key, <<"i", "d">>)
       /\ HasKey(CanonicalTree, key)
       /\ HasKey(Get(CanonicalTree, key), <<"I", "D">>)

\* the string scalars at any depth of the tree
RECURSIVE Scalars(_)
Scalars(tree) ==
  IF tree.t = "str" THEN {tree.s}
  ELSE IF tree.t \in {"list", "dict"}
  THEN UNION {Scalars(tree.c[k].v) : k \in 1..Len(tree.c)}
  ELSE {}

\* the text has a substring of the shape of a GUID
HasGuid(text) == \E k \in 0..Len(text) : GuidAt(text, k)

\* C12 as stated: for a non-empty env_host, no string scalar of the canonical
\* output contains a GUID-shaped substring or an occurrence of env_host.
C12_NoGuidNoHost ==
  (Normalized /\ normalize_call.env_host # <<>>) =>
    \A text \in Scalars(CanonicalTree) :
      ~HasGuid(text) /\ ~IsSubstring(normalize_call.env_host, text)

\* C13 as stated: parsing the canonical text and canonicalizing the parsed
\* tree again with the same host yields the same text.
C13_Idempotent ==
  normalize_call.again # <<>> =>
    /\ normalize_call.again[1].ok
    /\ normalize_call.again[1].canonical = normalize_call.out[1].canonical

\* both calls of normalize_flow_definition have returned a canonical text
BothNormalized ==
  /\ Normalized
  /\ normalize_call.other_out # <<>>
  /\ normalize_call.other_out[1].ok

\* C14 as stated: two trees that are the same but for other GUIDs in place of
\* the GUIDs and the host of the other environment in place of the host of
\* the one, each canonicalized with the host of its environment, have the
\* same canonical text and the same hash.
C14_GuidHostInvariant ==
  (/\ BothNormalized
   /\ normalize_call.env_host # <<>>
   /\ normalize_call.other_host # <<>>
   /\ normalize_call.other_host # normalize_call.env_host
   /\ normalize_call.other_json =
        Translate(normalize_call.flow_json, normalize_call.env_host, normalize_call.other_host))
  => /\ normalize_call.out[1].canonical = normalize_call.other_out[1].canonical
     /\ compute_hash(normalize_call.out[1].canonical)
          = compute_hash(normalize_call.other_out[1].canonical)

\* the array of the tree whose first two elements SwapTwo swaps, if any, and
\* the key it is below, if any
SwappedArray ==
  IF normalize_call.flow_json.t = "list" THEN <<normalize_call.flow_json>>
  ELSE IF normalize_call.flow_json.t = "dict" /\ Len(normalize_call.flow_json.c) = 1
          /\ normalize_call.flow_json.c[1].v.t = "list"
  THEN <<normalize_call.flow_json.c[1].v>>
  ELSE <<>>

SwappedBelow ==
  IF normalize_call.flow_json.t = "dict" THEN {normalize_call.flow_json.c[1].k} ELSE {}

\* the second tree is the first with two elements of an array swapped
Swapped ==
  /\ BothNormalized
  /\ normalize_call.other_host = normalize_call.env_host
  /\ SwappedArray # <<>>
  /\ Len(SwappedArray[1].c) >= 2
  /\ normalize_call.other_json = SwapTwo(normalize_call.flow_json)

\* C15 as stated: swapping two elements of an array that are not identical
\* changes the canonical output.
C15_SwapChangesOutput ==
  (Swapped /\ SwappedArray[1].c[1].v # SwappedArray[1].c[2].v)
  => normalize_call.out[1].canonical # normalize_call.other_out[1].canonical

\* the canonical text of the tree on its own, with the host of the call
CanonicalOf(tree) == normalize_flow_definition(tree, normalize_call.env_host, 1).canonical

\* C15, amended: swapping two elements of an array that is not below an
\* ignored key changes the canonical output whenever the canonical forms of
\* the two elements are not identical.
C15_SwapChangesCanonical ==
  (/\ Swapped
   /\ SwappedBelow \cap IgnoredByPattern = {}
   /\ CanonicalOf(SwappedArray[1].c[1].v) # CanonicalOf(SwappedArray[1].c[2].v))
  => normalize_call.out[1].canonical # normalize_call.other_out[1].canonical

\* C15 happens: the two elements of an array below a key that is kept are
\* swapped, two numbers that differ, and both trees are canonicalized.
C15_Witness ==
  /\ Swapped
  /\ SwappedBelow = {<<"a">>}
  /\ normalize_call.env_host # <<>>
  /\ SwappedArray[1].c[1].v.t = "int"
  /\ SwappedArray[1].c[1].v # SwappedArray[1].c[2].v

\* the mapping without the keys of `dropped`
Without(tree, dropped) ==
  JDict(SelectSeq(tree.c, LAMBDA e : e.k \notin dropped))

\* the definition of the one flow of an inventory, parsed
DefinitionOf(inventory) == Loads(inventory[1].clientdata.s, 1).v

IdKeys == {<<"w", "o", "r", "k", "f", "l", "o", "w", "i", "d">>, <<"c", "o", "n", "n", "e", "c", "t", "i", "o", "n", "R", "e", "f", "e", "r", "e", "n", "c", "e", "s">>}

\* the two inventories hold one flow each, of the same name, and the
\* definitions are the same but for workflowid and connectionReferences
SameButIds ==
  /\ Len(source_flows) = 1
  /\ Len(target_flows) = 1
  /\ source_flows[1].name = target_flows[1].name
  /\ Without(DefinitionOf(source_flows), IdKeys) = Without(DefinitionOf(target_flows), IdKeys)

\* C16 as stated: two flows of the same name with identical actions that
\* differ only in workflowid and in the content of connectionReferences are
\* classified identical.
C16_SameButIdsIdentical ==
  (pc = "done" /\ SameButIds) =>
    /\ Len(comparisons) = 1
    /\ comparisons[1].status = "identical"
    /\ identical_flows = <<comparisons[1].name>>

\* the value of inputs.uri of the action `name` of a definition
UriOf(definition, name) ==
  Get(Get(Get(Get(Get(definition, KeyDefinition), KeyActions), name),
          <<"i", "n", "p", "u", "t", "s">>), <<"u", "r", "i">>)

\* the definition with inputs.uri of the action `name` set to uri
WithUri(definition, name, uri) ==
  LET SetIn(tree, key, v) ==
        JDict([k \in 1..Len(tree.c) |-> IF tree.c[k].k = key THEN Entry(key, v) ELSE tree.c[k]])
      def == Get(definition, KeyDefinition)
      actions == Get(def, KeyActions)
      action == Get(actions, name)
      inputs == Get(action, <<"i", "n", "p", "u", "t", "s">>)
  IN  SetIn(definition, KeyDefinition,
        SetIn(def, KeyActions,
          SetIn(actions, name,
            SetIn(action, <<"i", "n", "p", "u", "t", "s">>, SetIn(inputs, <<"u", "r", "i">>, uri)))))

\* inputs.uri of the action `name` is the one value that differs between
\* the definitions of the two flows
OnlyUriDiffers(name) ==
  /\ Len(source_flows) = 1
  /\ Len(target_flows) = 1
  /\ source_flows[1].name = target_flows[1].name
  /\ HasKey(Get(Get(DefinitionOf(source_flows), KeyDefinition), KeyActions), name)
  /\ HasKey(Get(Get(DefinitionOf(target_flows), KeyDefinition), KeyActions), name)
  /\ UriOf(DefinitionOf(source_flows), name) # UriOf(DefinitionOf(target_flows), name)
  /\ DefinitionOf(target_flows) =
       WithUri(DefinitionOf(source_flows), name, UriOf(DefinitionOf(target_flows), name))

\* the flow is classified different, and its action differences have one
\* entry for the action `name`: changed, with one changed property, whose
\* path ends in .inputs.uri
UriChangeReported(name) ==
  /\ Len(comparisons) = 1
  /\ comparisons[1].status = "different"
  /\ comparisons[1].action_differences # <<>>
  /\ \E k \in 1..Len(comparisons[1].action_differences[1]) :
       LET d == comparisons[1].action_differences[1][k]
       IN  /\ d.action_name = name
           /\ d.status = "changed"
           /\ Len(d.changed_properties) = 1
           /\ EndsWith(d.changed_properties[1].path, <<".", "i", "n", "p", "u", "t", "s", ".", "u", "r", "i">>)
  /\ \A k, l \in 1..Len(comparisons[1].action_differences[1]) :
       comparisons[1].action_differences[1][k].action_name
         = comparisons[1].action_differences[1][l].action_name => k = l

\* C20 as stated: when inputs.uri of exactly one action differs between the
\* source and the target definition of a flow, the flow is classified
\* different and its action differences have an entry for that action with
\* status changed and exactly one changed property, whose path ends in
\* .inputs.uri.
C20_UriChange ==
  \A name \in ScenarioNames :
    (pc = "done" /\ OnlyUriDiffers(name)) => UriChangeReported(name)

\* the canonical form of the one snapshot of an environment, parsed
CanonicalOfSnapshot(snapshots) == Loads(snapshots[1].canonical_json, 1).v

\* both definitions have a canonical form, and the text inputs.uri of the
\* action `name` is the one value in which the two canonical forms differ
OnlyUriDiffersCanonically(name) ==
  /\ Len(source_snapshots) = 1
  /\ Len(target_snapshots) = 1
  /\ source_snapshots[1].name = target_snapshots[1].name
  /\ source_snapshots[1].error = <<>>
  /\ target_snapshots[1].error = <<>>
  /\ HasKey(Get(Get(CanonicalOfSnapshot(source_snapshots), KeyDefinition), KeyActions), name)
  /\ HasKey(Get(Get(CanonicalOfSnapshot(target_snapshots), KeyDefinition), KeyActions), name)
  /\ UriOf(CanonicalOfSnapshot(source_snapshots), name).t = "str"
  /\ UriOf(CanonicalOfSnapshot(target_snapshots), name).t = "str"
  /\ UriOf(CanonicalOfSnapshot(source_snapshots), name)
       # UriOf(CanonicalOfSnapshot(target_snapshots), name)
  /\ CanonicalOfSnapshot(target_snapshots) =
       WithUri(CanonicalOfSnapshot(source_snapshots), name,
               UriOf(CanonicalOfSnapshot(target_snapshots), name))

\* C20, amended: when compare_flows is called with include_diff_details
\* true, and the canonical forms of the source and the target definition of
\* a flow differ in the text inputs.uri of exactly one action and in nothing
\* else, the flow is classified different and its action differences have
\* an entry for that action with status changed and exactly one changed
\* property, whose path ends in .inputs.uri.
C20_CanonicalUriChange ==
  \A name \in ScenarioNames :
    (pc = "done" /\ include_diff_details /\ OnlyUriDiffersCanonically(name))
      => UriChangeReported(name)

\* C20 happens: a call with include_diff_details true returns for two flows
\* whose action a has inputs.uri u in the source and v in the target.
C20_Witness ==
  /\ pc = "done"
  /\ include_diff_details
  /\ OnlyUriDiffers(<<"a">>)
  /\ OnlyUriDiffersCanonically(<<"a">>)
  /\ UriOf(DefinitionOf(source_flows), <<"a">>) = JStr(<<"u">>)
  /\ UriOf(DefinitionOf(target_flows), <<"a">>) = JStr(<<"v">>)
  /\ UriChangeReported(<<"a">>)

\* compute_diff has returned for (json_a, json_b) and for (json_b, json_a)
BothDiffed ==
  /\ diff_call.forth # <<>>
  /\ diff_call.back # <<>>
  /\ diff_call.forth[1].exc = ""
  /\ diff_call.back[1].exc = ""

\* C17 as stated: for all trees a and b, compute_diff(a, b).added equals
\* compute_diff(b, a).removed and compute_diff(a, b).removed equals
\* compute_diff(b, a).added.
C17_DiffSymmetry ==
  BothDiffed =>
    /\ diff_call.forth[1].added = diff_call.back[1].removed
    /\ diff_call.forth[1].removed = diff_call.back[1].added

\* the two lists hold the same paths, each as many times
SamePaths(paths, others) ==
  /\ Len(paths) = Len(others)
  /\ \A k \in 1..Len(paths) :
       Cardinality({l \in 1..Len(paths) : paths[l] = paths[k]})
         = Cardinality({l \in 1..Len(others) : others[l] = paths[k]})

\* C17, amended: for all trees a and b, compute_diff(a, b).added holds the
\* same paths as compute_diff(b, a).removed, and compute_diff(a, b).removed
\* the same paths as compute_diff(b, a).added; the order of the paths in
\* the lists may differ.
C17_DiffSymmetryUpToOrder ==
  BothDiffed =>
    /\ SamePaths(diff_call.forth[1].added, diff_call.back[1].removed)
    /\ SamePaths(diff_call.forth[1].removed, diff_call.back[1].added)

\* C17 happens: the two calls have returned for two trees, with two paths
\* removed one way and added the other way, in different orders.
C17_Witness ==
  /\ BothDiffed
  /\ Len(diff_call.forth[1].removed) = 2
  /\ diff_call.forth[1].removed # diff_call.back[1].added
  /\ SamePaths(diff_call.forth[1].removed, diff_call.back[1].added)

\* C18: for every tree a, compute_diff(a, a) returns empty added, removed
\* and changed lists; this includes empty mappings and empty sequences.
C18_SameNoDiff ==
  (diff_call.same # <<>> /\ diff_call.same[1].exc = "") =>
    /\ diff_call.same[1].added = <<>>
    /\ diff_call.same[1].removed = <<>>
    /\ diff_call.same[1].changed = <<>>

\* C18 happens: compute_diff has returned for a tree with itself, a tree
\* that holds a number and an empty sequence.
C18_Witness ==
  /\ diff_call.same # <<>>
  /\ diff_call.same[1].exc = ""
  /\ diff_call.json_a = DumpsSorted(Two(JInt(1), JList(<<>>)))
  /\ diff_call.same[1].changed = <<>>

\* the action set of a serialized flow: the mapping at
\* properties.definition.actions, else at definition.actions, else none
ActionSet(flow_json) ==
  LET obj == Loads(flow_json, 1).v
      At(tree, key) == IF tree.t = "dict" /\ HasKey(tree, key) THEN Get(tree, key) ELSE JNull
      first == At(At(At(obj, KeyProperties), KeyDefinition), KeyActions)
      second == At(At(obj, KeyDefinition), KeyActions)
  IN  IF first.t = "dict" THEN first
      ELSE IF second.t = "dict" THEN second
      ELSE JDict(<<>>)

\* the entries of the differences returned that are about the action `name`
ReportsOf(name) ==
  {k \in 1..Len(diff_call.differences[1].differences) :
     diff_call.differences[1].differences[k].action_name = name}

\* C19 as stated: for any two flows, every action name in the union of the
\* two action sets is either reported by compute_action_differences exactly
\* once (as removed, added or changed) or is in both sets with identical
\* sub-trees; and every reported action name is in that union.
C19_ActionDiffComplete ==
  diff_call.differences # <<>> =>
    LET actions_a == ActionSet(diff_call.json_a)
        actions_b == ActionSet(diff_call.json_b)
    IN  /\ \A name \in KeySet(actions_a) \cup KeySet(actions_b) :
             \/ /\ Cardinality(ReportsOf(name)) = 1
                /\ \A k \in ReportsOf(name) :
                     diff_call.differences[1].differences[k].status
                       \in {"removed", "added", "changed"}
             \/ /\ ReportsOf(name) = {}
                /\ HasKey(actions_a, name)
                /\ HasKey(actions_b, name)
                /\ Get(actions_a, name) = Get(actions_b, name)
        /\ \A k \in 1..Len(diff_call.differences[1].differences) :
             diff_call.differences[1].differences[k].action_name
               \in KeySet(actions_a) \cup KeySet(actions_b)

\* the action set compute_action_differences works on: what extract_actions
\* returns, or the empty mapping
ActionsOf(flow_json) == OrEmpty(extract_actions(flow_json, 2))

\* the names of an action set: a sequence, a text or a number has none
NamesOf(actions) == IF actions.t = "dict" THEN KeySet(actions) ELSE {}

\* the differences hold exactly one entry for `name`, with this status and
\* no changed property
ReportedOnceAs(name, status) ==
  /\ Cardinality(ReportsOf(name)) = 1
  /\ \A k \in ReportsOf(name) :
       /\ diff_call.differences[1].differences[k].status = status
       /\ diff_call.differences[1].differences[k].changed_properties = <<>>

\* C21 as stated: for an action name present only in the target flow's
\* action set the action-difference list contains exactly one entry with
\* that action_name, status added and empty changed_properties; for a name
\* present only in the source, exactly one entry with status removed and
\* empty changed_properties.
C21_AddedAndRemoved ==
  diff_call.differences # <<>> =>
    /\ \A name \in NamesOf(ActionsOf(diff_call.json_b)) \ NamesOf(ActionsOf(diff_call.json_a)) :
         ReportedOnceAs(name, "added")
    /\ \A name \in NamesOf(ActionsOf(diff_call.json_a)) \ NamesOf(ActionsOf(diff_call.json_b)) :
         ReportedOnceAs(name, "removed")

\* C21 for the calls that return: both action sets are mappings
C21_AddedAndRemovedOfMappings ==
  (diff_call.differences # <<>> /\ diff_call.differences[1].exc # "") \/ C21_AddedAndRemoved

\* a fetch has failed: requests.get or raise_for_status has raised
FetchFailed == exc # <<>> /\ exc[1] \in {"RequestException", "HTTPError"}

\* C22: if fetching the flows of either environment fails (a request
\* exception or a non-transient HTTP error status), compare_flows is left
\* by the exception and produces no comparison result: no snapshot is built
\* and no flow is classified.
C22_FetchFailureStopsRun ==
  FetchFailed =>
    /\ pc = "raised"
    /\ source_snapshots = <<>>
    /\ target_snapshots = <<>>
    /\ comparisons = <<>>
    /\ identical_flows = <<>>
    /\ non_identical_flows = <<>>
    /\ missing_in_target = <<>>
    /\ errors = <<>>

\* C22 happens: the fetch of the target fails on an HTTP error status after
\* the fetch of the source has returned flows.
C22_Witness ==
  /\ pc = "raised"
  /\ exc # <<>>
  /\ exc[1] = "HTTPError"
  /\ source_flows # <<>>
  /\ comparisons = <<>>

\* the two trees of the calls of compute_diff
TreeA == Loads(diff_call.json_a, 1).v
TreeB == Loads(diff_call.json_b, 1).v

\* The pairs of nodes compute_diff(json_a, json_b) is to compare, each with
\* its path: the two roots, and below two mappings the values of a key of
\* both, below two sequences the items of an index of both.
RECURSIVE ComparedPairs(_, _, _)
ComparedPairs(a, b, path) ==
  {[a |-> a, b |-> b, path |-> path]}
  \cup IF a.t = "dict" /\ b.t = "dict"
       THEN UNION {ComparedPairs(Get(a, key), Get(b, key), path \o <<".">> \o key) :
                     key \in KeySet(a) \cap KeySet(b)}
       ELSE IF a.t = "list" /\ b.t = "list"
       THEN UNION {ComparedPairs(a.c[k].v, b.c[k].v, path \o <<"[">> \o NatStr(k - 1) \o <<"]">>) :
                     k \in 1..(IF Len(a.c) < Len(b.c) THEN Len(a.c) ELSE Len(b.c))}
       ELSE {}

Compared == ComparedPairs(TreeA, TreeB, <<"$">>)

\* the path q is the path of a node below the node of `path`
Below(path, q) ==
  /\ Len(q) > Len(path)
  /\ SubSeq(q, 1, Len(path)) = path
  /\ q[Len(path) + 1] \in {".", "["}

\* the paths of all the entries of the diff returned
EntryPaths(diff) ==
  {diff.added[k] : k \in 1..Len(diff.added)}
  \cup {diff.removed[k] : k \in 1..Len(diff.removed)}
  \cup {diff.changed[k].path : k \in 1..Len(diff.changed)}

\* the indices of the entries of `changed` at `path`
ChangedAt(diff, path) == {k \in 1..Len(diff.changed) : diff.changed[k].path = path}

\* the two nodes are of different types
Mismatched(p) == p.a.t # p.b.t

\* C23: when the two nodes compared have different types (including null
\* against a mapping or a sequence), compute_diff records exactly one
\* changed entry at the current path with the stringified values, records
\* no entry for any path below that node, and does not fail.
C23_TypeMismatch ==
  diff_call.forth # <<>> =>
    /\ diff_call.forth[1].exc = ""
    /\ \A p \in Compared :
         Mismatched(p) =>
           /\ Cardinality(ChangedAt(diff_call.forth[1], p.path)) = 1
           /\ \A k \in ChangedAt(diff_call.forth[1], p.path) :
                diff_call.forth[1].changed[k] =
                  [path |-> p.path,
                   source_value |-> IF p.a.t = "str" THEN p.a.s ELSE PyRepr(p.a),
                   target_value |-> IF p.b.t = "str" THEN p.b.s ELSE PyRepr(p.b)]
           /\ \A q \in EntryPaths(diff_call.forth[1]) : ~Below(p.path, q)

\* C23 happens: compute_diff has returned for two trees with null at $.a in
\* the first and a mapping that is not empty at $.a in the second.
C23_Witness ==
  /\ diff_call.forth # <<>>
  /\ \E p \in Compared :
       /\ p.path = <<"$", ".", "a">>
       /\ p.a = JNull
       /\ p.b.t = "dict"
       /\ p.b.c # <<>>
       /\ ChangedAt(diff_call.forth[1], p.path) # {}

\* how many entries of the list of paths are `path`
Times(paths, path) == Cardinality({k \in 1..Len(paths) : paths[k] = path})

\* the two nodes are to give a changed entry of their own: their types
\* differ, or they are scalars of one type that are not equal (the floats
\* 0.0 and -0.0 are equal)
Differ(a, b) ==
  \/ a.t # b.t
  \/ /\ a.t \notin {"dict", "list"}
     /\ a # b
     /\ ~(a.t = "float" /\ a.s \in {<<"0", ".", "0">>, <<"-", "0", ".", "0">>}
                        /\ b.s \in {<<"0", ".", "0">>, <<"-", "0", ".", "0">>})

\* the two nodes at `path` were compared: they have a changed entry of
\* their own exactly when they differ
WereCompared(diff, a, b, path) ==
  Cardinality(ChangedAt(diff, path)) = (IF Differ(a, b) THEN 1 ELSE 0)

\* the node at `path` is in one tree only: one entry in `listed`, none in
\* `other`, none in changed, and none for a path below it
OnlyListed(diff, listed, other, path) ==
  /\ Times(listed, path) = 1
  /\ Times(other, path) = 0
  /\ ChangedAt(diff, path) = {}
  /\ \A q \in EntryPaths(diff) : ~Below(path, q)

\* C24: when both nodes are mappings, compute_diff appends to removed
\* exactly the paths <path>.<key> of the keys only in a, and to added
\* exactly those of the keys only in b, each once and without descending
\* into the removed or added sub-tree, and compares, with the extended
\* path, the values of exactly the keys in both.
C24_Mappings ==
  diff_call.forth # <<>> =>
    \A p \in Compared :
      (p.a.t = "dict" /\ p.b.t = "dict") =>
        /\ \A key \in KeySet(p.a) \ KeySet(p.b) :
             OnlyListed(diff_call.forth[1], diff_call.forth[1].removed,
                        diff_call.forth[1].added, p.path \o <<".">> \o key)
        /\ \A key \in KeySet(p.b) \ KeySet(p.a) :
             OnlyListed(diff_call.forth[1], diff_call.forth[1].added,
                        diff_call.forth[1].removed, p.path \o <<".">> \o key)
        /\ \A key \in KeySet(p.a) \cap KeySet(p.b) :
             /\ Times(diff_call.forth[1].added, p.path \o <<".">> \o key) = 0
             /\ Times(diff_call.forth[1].removed, p.path \o <<".">> \o key) = 0
             /\ WereCompared(diff_call.forth[1], Get(p.a, key), Get(p.b, key),
                             p.path \o <<".">> \o key)

\* C24 happens: compute_diff has returned for two flows whose actions have
\* a name of the first only, a name of the second only, and a name of both
\* with values that differ below.
C24_Witness ==
  /\ diff_call.forth # <<>>
  /\ \E p \in Compared :
       /\ p.a.t = "dict"
       /\ p.b.t = "dict"
       /\ KeySet(p.a) \ KeySet(p.b) # {}
       /\ KeySet(p.b) \ KeySet(p.a) # {}
       /\ \E key \in KeySet(p.a) \cap KeySet(p.b) :
            /\ Get(p.a, key) # Get(p.b, key)
            /\ \E q \in EntryPaths(diff_call.forth[1]) : Below(p.path \o <<".">> \o key, q)

\* C25: when both nodes are sequences of lengths m = len(a) and n = len(b),
\* the items of the indices below min(m, n) are compared pairwise with the
\* path <path>[i], the indices i with m <= i < n each give one added entry
\* <path>[i], and the indices i with n <= i < m each give one removed entry
\* <path>[i].
C25_Sequences ==
  diff_call.forth # <<>> =>
    \A p \in Compared :
      (p.a.t = "list" /\ p.b.t = "list") =>
        /\ \A k \in 0..(Len(p.a.c) - 1) :
             IF k < Len(p.b.c)
             THEN /\ Times(diff_call.forth[1].added, p.path \o <<"[">> \o NatStr(k) \o <<"]">>) = 0
                  /\ Times(diff_call.forth[1].removed, p.path \o <<"[">> \o NatStr(k) \o <<"]">>) = 0
                  /\ WereCompared(diff_call.forth[1], p.a.c[k + 1].v, p.b.c[k + 1].v,
                                  p.path \o <<"[">> \o NatStr(k) \o <<"]">>)
             ELSE OnlyListed(diff_call.forth[1], diff_call.forth[1].removed,
                             diff_call.forth[1].added, p.path \o <<"[">> \o NatStr(k) \o <<"]">>)
        /\ \A k \in Len(p.a.c)..(Len(p.b.c) - 1) :
             OnlyListed(diff_call.forth[1], diff_call.forth[1].added,
                        diff_call.forth[1].removed, p.path \o <<"[">> \o NatStr(k) \o <<"]">>)

\* C25 happens: compute_diff has returned for a sequence of one item and a
\* sequence of two, the first items two numbers that differ.
C25_Witness ==
  /\ diff_call.forth # <<>>
  /\ TreeA.t = "list"
  /\ TreeB.t = "list"
  /\ Len(TreeA.c) = 1
  /\ Len(TreeB.c) = 2
  /\ TreeA.c[1].v # TreeB.c[1].v
  /\ diff_call.forth[1].added = <<<<"$", "[", "1", "]">>>>
  /\ Cardinality(ChangedAt(diff_call.forth[1], <<"$", "[", "0", "]">>)) = 1

\* the names of the actions of both flows whose sub-trees differ
ChangedNames ==
  {name \in NamesOf(ActionsOf(diff_call.json_a)) \cap NamesOf(ActionsOf(diff_call.json_b)) :
     Get(ActionsOf(diff_call.json_a), name) # Get(ActionsOf(diff_call.json_b), name)}

\* the tree diff of the two sub-trees of the action `name`
SubTreeDiff(name) ==
  compute_diff(DumpsSorted(Get(ActionsOf(diff_call.json_a), name)),
               DumpsSorted(Get(ActionsOf(diff_call.json_b), name)), 1, "ascending")

\* the entries of `properties` are, in some order, the changed entries of
\* the diff, an entry for each of its added paths with the values "(missing)"
\* and "(added)", and an entry for each of its removed paths with the values
\* removed_source and removed_target
PropertiesOf(properties, diff, removed_source, removed_target) ==
  /\ Len(properties) = Len(diff.changed) + Len(diff.added) + Len(diff.removed)
  /\ {properties[k] : k \in 1..Len(properties)} =
       {diff.changed[k] : k \in 1..Len(diff.changed)}
       \cup {[path |-> diff.added[k],
              source_value |-> <<"(", "m", "i", "s", "s", "i", "n", "g", ")">>,
              target_value |-> <<"(", "a", "d", "d", "e", "d", ")">>] : k \in 1..Len(diff.added)}
       \cup {[path |-> diff.removed[k], source_value |-> removed_source,
              target_value |-> removed_target] : k \in 1..Len(diff.removed)}

\* C26 as stated: for an action present in both flows whose sub-trees
\* differ, changed_properties holds one entry per changed, added and removed
\* path of the tree diff of that action's sub-tree: an added path is given
\* source_value "(missing)" and target_value "(added)", and a removed path
\* the mirror of that pair, source_value "(added)" and target_value
\* "(missing)".
C26_PropertiesMirrored ==
  (diff_call.differences # <<>> /\ diff_call.differences[1].exc = "") =>
    \A name \in ChangedNames :
      \A k \in ReportsOf(name) :
        PropertiesOf(diff_call.differences[1].differences[k].changed_properties,
                     SubTreeDiff(name),
                     <<"(", "a", "d", "d", "e", "d", ")">>,
                     <<"(", "m", "i", "s", "s", "i", "n", "g", ")">>)

\* C26, amended: for an action present in both flows whose sub-trees
\* differ, changed_properties holds one entry per changed, added and removed
\* path of the tree diff of that action's sub-tree: an added path is given
\* source_value "(missing)" and target_value "(added)", and a removed path
\* is given source_value "(removed)" and target_value "(missing)".
C26_PropertiesOfDiff ==
  (diff_call.differences # <<>> /\ diff_call.differences[1].exc = "") =>
    \A name \in ChangedNames :
      /\ Cardinality(ReportsOf(name)) = 1
      /\ \A k \in ReportsOf(name) :
           PropertiesOf(diff_call.differences[1].differences[k].changed_properties,
                        SubTreeDiff(name),
                        <<"(", "r", "e", "m", "o", "v", "e", "d", ")">>,
                        <<"(", "m", "i", "s", "s", "i", "n", "g", ")">>)

\* C26 happens: compute_action_differences has returned for two flows with
\* an action x of both, whose sub-trees give a changed path and a removed
\* path.
C26_Witness ==
  /\ diff_call.differences # <<>>
  /\ diff_call.differences[1].exc = ""
  /\ <<"x">> \in ChangedNames
  /\ SubTreeDiff(<<"x">>).changed # <<>>
  /\ SubTreeDiff(<<"x">>).removed # <<>>
  /\ \E k \in ReportsOf(<<"x">>) :
       Len(diff_call.differences[1].differences[k].changed_properties) >= 2

\* the names of the actions of both flows
CommonNames ==
  NamesOf(ActionsOf(diff_call.json_a)) \cap NamesOf(ActionsOf(diff_call.json_b))

\* the two sub-trees of the action `name` have the same sorted-key
\* serialization
SameSerialization(name) ==
  Dumps(Get(ActionsOf(diff_call.json_a), name), TRUE, <<",", " ">>, <<":", " ">>)
    = Dumps(Get(ActionsOf(diff_call.json_b), name), TRUE, <<",", " ">>, <<":", " ">>)

\* C27: an action present in both flows whose two sub-trees have the same
\* sorted-key serialization never appears in the list returned by
\* compute_action_differences; only actions whose serializations differ are
\* reported with status changed.
C27_IdenticalOmitted ==
  diff_call.differences # <<>> =>
    /\ \A name \in CommonNames : SameSerialization(name) => ReportsOf(name) = {}
    /\ \A k \in 1..Len(diff_call.differences[1].differences) :
         diff_call.differences[1].differences[k].status = "changed" =>
           /\ diff_call.differences[1].differences[k].action_name \in CommonNames
           /\ ~SameSerialization(diff_call.differences[1].differences[k].action_name)

\* C27 happens: compute_action_differences has returned for two flows with
\* the actions x and y, x with sub-trees that differ and y with the same
\* sub-tree in both; x is reported, y is not.
C27_Witness ==
  /\ diff_call.differences # <<>>
  /\ diff_call.differences[1].exc = ""
  /\ CommonNames = {<<"x">>, <<"y">>}
  /\ ~SameSerialization(<<"x">>)
  /\ SameSerialization(<<"y">>)
  /\ ReportsOf(<<"x">>) # {}
  /\ ReportsOf(<<"y">>) = {}

\* tree[key] when tree is a mapping with the key, <<>> when the path ends
Step(found, key) ==
  IF found # <<>> /\ found[1].t = "dict" /\ HasKey(found[1], key)
  THEN <<Get(found[1], key)>>
  ELSE <<>>

\* The actions sub-tree of a flow as C28 locates it: the value at
\* properties.definition.actions when that path leads to an actions key,
\* else the value at definition.actions, else the empty mapping.
ProbedActions(flow_json) ==
  LET obj == <<Loads(flow_json, 1).v>>
      first == Step(Step(Step(obj, KeyProperties), KeyDefinition), KeyActions)
      second == Step(Step(obj, KeyDefinition), KeyActions)
  IN  IF first # <<>> THEN first[1]
      ELSE IF second # <<>> THEN second[1]
      ELSE JDict(<<>>)

\* C28 as stated, for two flows whose actions sub-trees are mappings or
\* missing: the actions sub-tree is located by probing
\* properties.definition.actions first and definition.actions second (the
\* second is used when the first path does not lead to an actions key);
\* when neither path exists the action set is empty; no error is raised,
\* and the actions of one flow only are reported as removed or added.
C28_ProbedInOrder ==
  (/\ diff_call.differences # <<>>
   /\ ProbedActions(diff_call.json_a).t = "dict"
   /\ ProbedActions(diff_call.json_b).t = "dict") =>
    /\ diff_call.differences[1].exc = ""
    /\ \A name \in KeySet(ProbedActions(diff_call.json_a))
                     \ KeySet(ProbedActions(diff_call.json_b)) :
         ReportedOnceAs(name, "removed")
    /\ \A name \in KeySet(ProbedActions(diff_call.json_b))
                     \ KeySet(ProbedActions(diff_call.json_a)) :
         ReportedOnceAs(name, "added")

\* C29 as stated: every entry with status changed returned by
\* compute_action_differences has a changed_properties list that is not
\* empty; and whenever two serializations differ, the tree diff of the two
\* trees has at least one added, removed or changed path.
C29_ChangedNotEmpty ==
  /\ diff_call.differences # <<>> =>
       \A k \in 1..Len(diff_call.differences[1].differences) :
         diff_call.differences[1].differences[k].status = "changed" =>
           diff_call.differences[1].differences[k].changed_properties # <<>>
  /\ (/\ diff_call.forth # <<>>
      /\ diff_call.forth[1].exc = ""
      /\ diff_call.json_a # diff_call.json_b) =>
       EntryPaths(diff_call.forth[1]) # {}

\* C29 but for the floats 0.0 and -0.0, which are equal and are serialized
\* differently
C29_ChangedNotEmptyButZeros ==
  \/ \E neg \in {diff_call.json_a, diff_call.json_b} :
       IsSubstring(<<"-", "0", ".", "0">>, neg)
  \/ C29_ChangedNotEmpty

\* the records of a page: the list at "value", else the page itself when it
\* has a workflowid, else none
RecordsOf(body) ==
  IF body.value # <<>> THEN body.value[1]
  ELSE IF body.record # <<>> THEN body.record
  ELSE <<>>

\* the records of the pages 1..k, in page order
RECURSIVE RecordsUpTo(_, _)
RecordsUpTo(pages, k) ==
  IF k = 0 THEN <<>> ELSE RecordsUpTo(pages, k - 1) \o RecordsOf(pages[k])

\* a response that is transient was received in this step
TransientStep == fetch_call'.page = fetch_call.page + 1 /\ fetch_call'.status \in {429, 503}

\* C30: in the paging loop of fetch_flows a transient response (HTTP 429 or
\* a status >= 500) leaves the page URL and the flows fetched unchanged and
\* the same URL is requested again, whatever the number of requests made so
\* far; fetch_flows returns only after every page has got a response that is
\* not transient, and the list it returns is the concatenation in page order
\* of the records of every page reached through "@odata.nextLink", each
\* page counted once.
C30_Paging ==
  /\ [][TransientStep =>
          /\ fetch_call'.url = fetch_call.url
          /\ fetch_call'.flows = fetch_call.flows
          /\ fetch_call'.served = fetch_call.served
          /\ fetch_call'.out = <<>>
          /\ fetch_call'.raised = <<>>]_vars
  /\ [](fetch_call.out # <<>> =>
          /\ fetch_call.status = 200
          /\ fetch_call.url = 0
          /\ fetch_call.served = [k \in 1..Len(fetch_call.pages) |-> k]
          /\ fetch_call.out[1] = RecordsUpTo(fetch_call.pages, Len(fetch_call.pages)))

\* C30 happens: fetch_flows has returned the flows of two pages, each with
\* records, after more requests than pages.
C30_Witness ==
  /\ fetch_call.out # <<>>
  /\ Len(fetch_call.pages) = 2
  /\ RecordsOf(fetch_call.pages[1]) # <<>>
  /\ RecordsOf(fetch_call.pages[2]) # <<>>
  /\ fetch_call.page > 2
  /\ Len(fetch_call.out[1]) = 3

====
